---- MODULE Spec2Model ----
(***************************************************************************)
(* Circuit breaker and recovery subsystem of the CI monitoring lambdas     *)
(* (recovery_manager.py).  The circuit state of every service lives in a   *)
(* key-value table; CircuitBreakerManager reads and overwrites whole       *)
(* records.  Every table access may fail with a ClientError, which the     *)
(* manager absorbs.  RecoveryExecutor plans the recovery of a failure type  *)
(* behind that breaker, and the handler validates the event, runs the plan *)
(* and answers.                                                            *)
(***************************************************************************)
EXTENDS Integers, Sequences, FiniteSets, TLC

\* ------------------------------------------------------------------ bounds
\* CIRCUIT_BREAKER_FAILURE_THRESHOLD and CIRCUIT_BREAKER_TIMEOUT are read from
\* the environment (recovery_manager.py:37-38, defaults 5 and 60 seconds); the
\* model instantiates them with small values.
CIRCUIT_BREAKER_FAILURE_THRESHOLD == 3

CIRCUIT_BREAKER_TIMEOUT == 2

\* Largest failure_count the model lets record_failure reach.
MaxCount == CIRCUIT_BREAKER_FAILURE_THRESHOLD + 1

\* Last instant of the clock (seconds).
MaxTime == 2 * CIRCUIT_BREAKER_TIMEOUT + 2

\* Last instant of the clock while invocations overlap: the timeout can pass
\* once after a failure recorded at the start.
ConcMaxTime == CIRCUIT_BREAKER_TIMEOUT + 1

Services == {"github"}

Times == 0 .. MaxTime

\* ------------------------------------------------------------ state
VARIABLES
    enabled,   \* CIRCUIT_BREAKER_ENABLED, fixed when the module is loaded
    store,     \* the table: service_name -> item, or Absent
    now,       \* datetime.now(), in seconds
    last,      \* the call that returned last: its inputs, what it read, its result
    clean,     \* history: no table access for the service has failed so far
    streak,    \* history: record_failure calls in a row since a fresh record, or 0
    stage,     \* history: position of the service in the open / probe / close cycle
    failAt,    \* history: instant of the service's latest record_failure call
    everOpen,  \* history: a record with state OPEN was written for the service
    pc,        \* overlapping invocations: where each one stands
    loc,       \* overlapping invocations: the local variables of each one
    race,      \* racing record_failure calls: the count they started from
    failures,  \* pattern analysis: the failure records handed to it
    analysis,  \* pattern analysis: the patterns returned, once it has run
    run,       \* the handler: the invocation under way or the last one finished
    retry,     \* metrics collector: the retry_with_backoff call under way or ended
    circuit_breaker_state,  \* metrics collector: the breaker kept in the process
    fetch,     \* metrics collector: the last call of the wrapped fetch
    live       \* recovery of a circuit: the calls that follow one another

\* The history of the calls made one at a time.
seqvars == <<last, clean, streak, stage, failAt, everOpen>>

\* The invocations that overlap.
procvars == <<pc, loc>>

\* The metrics collector and the recovery of a circuit.
colvars == <<retry, circuit_breaker_state, fetch, live>>

\* What the circuit breaker's own calls leave alone.
xvars == <<race, failures, analysis, run, colvars>>

vars == <<enabled, store, now, seqvars, procvars, xvars>>

\* ------------------------------------------------------------ values
CLOSED == "CLOSED"

OPEN == "OPEN"

HALF_OPEN == "HALF_OPEN"

\* No item under the key: get_item's response has no 'Item'.
Absent == [absent |-> TRUE]

\* Python's None.
None == <<>>

\* The outcome of a call that raises ValueError instead of returning.
ValueError == [raised |-> "ValueError"]

\* datetime.isoformat() and datetime.fromisoformat(): the text of an instant and
\* the instant it parses to.
isoformat(t) == <<t>>

fromisoformat(x) == x[1]

\* int((datetime.now() + timedelta(days=30)).timestamp())
ttl_of(t) == t + 30 * 86400

\* ------------------------------------------------- CircuitBreakerManager
\* The record get_circuit_state builds when the table has no item.
new_circuit_state(service_name, t) ==
    [service_name |-> service_name,
     state |-> CLOSED,
     failure_count |-> 0,
     last_failure |-> None,
     last_success |-> isoformat(t),
     ttl |-> ttl_of(t)]

\* _get_default_circuit_state with one failure already counted.
_get_default_circuit_state_counted(service_name, t) ==
    [service_name |-> service_name,
     state |-> CLOSED,
     failure_count |-> 1,
     last_failure |-> None,
     last_success |-> isoformat(t),
     ttl |-> ttl_of(t)]

_get_default_circuit_state(service_name, t) ==
    [service_name |-> service_name,
     state |-> CLOSED,
     failure_count |-> 0,
     last_failure |-> None,
     last_success |-> isoformat(t),
     ttl |-> ttl_of(t)]

\* get_circuit_state: readOk is whether get_item answered (FALSE: ClientError).
\* An empty service_name is refused before the table is asked.
get_circuit_state(st, service_name, t, readOk) ==
    IF service_name = ""
    THEN ValueError
    ELSE IF readOk
    THEN IF st[service_name] # Absent
         THEN st[service_name]
         ELSE new_circuit_state(service_name, t)
    ELSE _get_default_circuit_state(service_name, t)

\* put_item that stores nothing.
put_item_dropped(st, item, writeOk) == st

\* put_item: the whole item replaces what is under the key; on a ClientError
\* the table is left as it was.
put_item(st, item, writeOk) ==
    IF writeOk THEN [st EXCEPT ![item.service_name] = item] ELSE st

\* record_success_item without the reset of the counter.
record_success_item_keeps_count(current_state, t) ==
    [current_state EXCEPT
        !.state = CLOSED,
        !.last_success = isoformat(t),
        !.ttl = ttl_of(t)]

\* record_success: the item it writes.
record_success_item(current_state, t) ==
    [current_state EXCEPT
        !.state = CLOSED,
        !.failure_count = 0,
        !.last_success = isoformat(t),
        !.ttl = ttl_of(t)]

\* record_failure_new_state opening one failure before the threshold.
record_failure_new_state_early(failure_count) ==
    IF failure_count >= CIRCUIT_BREAKER_FAILURE_THRESHOLD - 1 THEN OPEN ELSE CLOSED

\* record_failure_new_state opening only above the threshold.
record_failure_new_state_strict(failure_count) ==
    IF failure_count > CIRCUIT_BREAKER_FAILURE_THRESHOLD THEN OPEN ELSE CLOSED

\* record_failure: the state it chooses for the new count.
record_failure_new_state(failure_count) ==
    IF failure_count >= CIRCUIT_BREAKER_FAILURE_THRESHOLD THEN OPEN ELSE CLOSED

\* record_failure_item that starts the count again when the probe of a
\* HALF_OPEN circuit fails.
record_failure_item_restart(current_state, t) ==
    LET failure_count == IF current_state.state = HALF_OPEN
                         THEN 1
                         ELSE current_state.failure_count + 1
    IN  [current_state EXCEPT
            !.state = record_failure_new_state(failure_count),
            !.failure_count = failure_count,
            !.last_failure = isoformat(t),
            !.ttl = ttl_of(t)]

\* record_failure: the item it writes.
record_failure_item(current_state, t) ==
    [current_state EXCEPT
        !.state = record_failure_new_state(current_state.failure_count + 1),
        !.failure_count = current_state.failure_count + 1,
        !.last_failure = isoformat(t),
        !.ttl = ttl_of(t)]

\* record_failure_return deciding on the count it read, not the one it wrote.
record_failure_return_stale(current_state, writeOk) ==
    IF writeOk
    THEN record_failure_new_state(current_state.failure_count)
    ELSE CLOSED

\* record_failure: what it returns; CLOSED from the except branch.
record_failure_return(current_state, writeOk) ==
    IF writeOk
    THEN record_failure_new_state(current_state.failure_count + 1)
    ELSE CLOSED

\* timeout_passed with >= for >.
timeout_passed_inclusive(current_state, t) ==
    /\ current_state.last_failure # None
    /\ t - fromisoformat(current_state.last_failure) >= CIRCUIT_BREAKER_TIMEOUT

\* should_allow_request, OPEN branch: a last_failure is stored and the timeout
\* has passed since.
\* timeout_passed for a circuit that never lets a probe through.
timeout_passed_never(current_state, t) == FALSE

timeout_passed(current_state, t) ==
    /\ current_state.last_failure # None
    /\ t - fromisoformat(current_state.last_failure) > CIRCUIT_BREAKER_TIMEOUT

\* half_open_item that also clears the counter.
half_open_item_reset(current_state, t) ==
    [current_state EXCEPT !.state = HALF_OPEN, !.failure_count = 0, !.ttl = ttl_of(t)]

\* _transition_to_half_open: the item it writes.
half_open_item(current_state, t) ==
    [current_state EXCEPT !.state = HALF_OPEN, !.ttl = ttl_of(t)]

\* makes_transition that does not wait for the timeout.
makes_transition_untimed(current_state, t) ==
    current_state.state = OPEN

\* should_allow_request: whether the OPEN branch goes on to
\* _transition_to_half_open.
makes_transition(current_state, t) ==
    /\ current_state.state = OPEN
    /\ timeout_passed(current_state, t)

\* should_allow_return that allows a CLOSED circuit only while nothing is counted.
should_allow_return_counting(current_state, t) ==
    IF current_state.state = CLOSED THEN current_state.failure_count = 0
    ELSE IF current_state.state = OPEN THEN timeout_passed(current_state, t)
    ELSE IF current_state.state = HALF_OPEN THEN TRUE
    ELSE FALSE

\* should_allow_return that lets no probe through while HALF_OPEN.
should_allow_return_half_open_denied(current_state, t) ==
    IF current_state.state = CLOSED THEN TRUE
    ELSE IF current_state.state = OPEN THEN timeout_passed(current_state, t)
    ELSE IF current_state.state = HALF_OPEN THEN FALSE
    ELSE FALSE

\* should_allow_request: the value it returns for the record it read.
should_allow_return(current_state, t) ==
    IF current_state.state = CLOSED THEN TRUE
    ELSE IF current_state.state = OPEN THEN timeout_passed(current_state, t)
    ELSE IF current_state.state = HALF_OPEN THEN TRUE
    ELSE FALSE

\* ------------------------------------------------------ whole calls
\* What a call leaves behind: the table, the returned value and the numbers of
\* get_item and put_item requests it made, for the outcomes rd, rd2, wr of its
\* table accesses (TRUE: answered, FALSE: ClientError).

\* record_success(service_name)
record_success(st, service_name, t, rd, wr) ==
    LET current_state == get_circuit_state(st, service_name, t, rd)
        updated_state == record_success_item(current_state, t)
    IN  [store |-> put_item(st, updated_state, wr), ret |-> None,
         reads |-> 1, writes |-> 1]

\* record_failure(service_name)
record_failure(st, service_name, t, rd, wr) ==
    LET current_state == get_circuit_state(st, service_name, t, rd)
        updated_state == record_failure_item(current_state, t)
    IN  [store |-> put_item(st, updated_state, wr),
         ret |-> record_failure_return(current_state, wr),
         reads |-> 1, writes |-> 1]

\* _transition_to_half_open without its put_item.
_transition_to_half_open_unsaved(st, service_name, t, rd2, wr) == st

\* _transition_to_half_open(service_name): reads the record again and writes it
\* back with state HALF_OPEN.
_transition_to_half_open(st, service_name, t, rd2, wr) ==
    LET current_state == get_circuit_state(st, service_name, t, rd2)
    IN  put_item(st, half_open_item(current_state, t), wr)

\* should_allow_request without the CIRCUIT_BREAKER_ENABLED switch.
should_allow_request_no_switch(en, st, service_name, t, rd, rd2, wr) ==
    LET current_state == get_circuit_state(st, service_name, t, rd)
        tr == makes_transition(current_state, t)
    IN  [store |-> IF tr
                   THEN _transition_to_half_open(st, service_name, t, rd2, wr)
                   ELSE st,
         ret |-> should_allow_return(current_state, t),
         reads |-> IF tr THEN 2 ELSE 1,
         writes |-> IF tr THEN 1 ELSE 0]

\* should_allow_request(service_name)
should_allow_request(en, st, service_name, t, rd, rd2, wr) ==
    IF ~en
    THEN [store |-> st, ret |-> TRUE, reads |-> 0, writes |-> 0]
    ELSE LET current_state == get_circuit_state(st, service_name, t, rd)
             tr == makes_transition(current_state, t)
         IN  [store |-> IF tr
                        THEN _transition_to_half_open(st, service_name, t, rd2, wr)
                        ELSE st,
              ret |-> should_allow_return(current_state, t),
              reads |-> IF tr THEN 2 ELSE 1,
              writes |-> IF tr THEN 1 ELSE 0]

\* ------------------------------------------------------------ history
\* A service no failure has been counted for: no record, or CLOSED with count 0.
Fresh(st, s) ==
    \/ st[s] = Absent
    \/ st[s].state = CLOSED /\ st[s].failure_count = 0

\* The record of a call that has returned: the instant, the stored item before
\* it, the outcomes of its table accesses and what it returned.
Call(op, s, rd, rd2, wr, r) ==
    [op |-> op, svc |-> s, t |-> now, pre |-> store[s],
     rd |-> rd, rd2 |-> rd2, wr |-> wr,
     reads |-> r.reads, writes |-> r.writes, ret |-> r.ret]

NoCall ==
    [op |-> "none", svc |-> "none", t |-> 0, pre |-> Absent,
     rd |-> TRUE, rd2 |-> TRUE, wr |-> TRUE,
     reads |-> 0, writes |-> 0, ret |-> None]

\* The invocations (lambda executions) that may overlap.
Procs == {"a", "b"}

Ops == {"record_success", "record_failure", "should_allow_request"}

\* The state stored for a service, "absent" when the table has no item.
StoredState(st, s) == IF st[s] = Absent THEN "absent" ELSE st[s].state

\* The locals of an invocation: the call it runs, the record it read, the item
\* it is about to put, and, for the claims, the state that was stored when it
\* made its first get_item request, the value returned, the put_item requests
\* made and whether another invocation was under way when it returned.
Locals(op, s, cur, item, stored, ret, writes, overlapped) ==
    [op |-> op, svc |-> s, current_state |-> cur, updated_state |-> item,
     stored |-> stored, ret |-> ret, writes |-> writes, overlapped |-> overlapped]

NoLocals == Locals("none", "none", None, None, "none", None, 0, FALSE)

\* ------------------------------------------------------------ actions
\* No retry_with_backoff call has been made.
NoRetry ==
    [state |-> "idle", max_retries |-> 0, base_delay |-> 0, attempt |-> 0,
     outcomes |-> <<>>, slept |-> <<>>]

\* circuit_breaker_state as the module of the collector is loaded.
BreakerAtLoad == [failures |-> 0, last_failure |-> None, state |-> CLOSED]

\* The wrapped fetch has not been called.
NoFetch ==
    [answer |-> "none", status |-> 0, result |-> "none",
     before |-> BreakerAtLoad, at |-> 0]

\* No recovery of a circuit is being followed.
NoLive == [mode |-> "any", probing |-> FALSE, denied |-> FALSE]

ColInit ==
    /\ retry = NoRetry
    /\ circuit_breaker_state = BreakerAtLoad
    /\ fetch = NoFetch
    /\ live = NoLive

InitStore ==
    /\ store = [s \in Services |-> Absent]
    /\ now = 0
    /\ last = NoCall
    /\ clean = [s \in Services |-> TRUE]
    /\ streak = [s \in Services |-> 0]
    /\ stage = [s \in Services |-> "none"]
    /\ failAt = [s \in Services |-> 0]
    /\ everOpen = [s \in Services |-> FALSE]
    /\ pc = [p \in Procs |-> "idle"]
    /\ loc = [p \in Procs |-> NoLocals]

\* No race of record_failure calls is being followed.
NoRace == [c |-> 0, together |-> FALSE]

\* _analyze_failure_patterns has not run.
NoAnalysis == [done |-> FALSE, patterns |-> <<>>]

\* The handler has not been invoked.
NoRun ==
    [phase |-> "idle", source |-> "none", given |-> <<>>, failure_type |-> "",
     failing_services |-> <<>>, todo |-> <<>>, recent_failures |-> <<>>, recovery_actions |-> <<>>, calls |-> <<>>,
     statusCode |-> 0, error |-> "", notified |-> <<>>,
     context_keys |-> {}, runner_type |-> <<>>, published |-> <<>>,
     configs |-> <<>>, updates |-> <<>>, listing |-> <<>>, s3_fail |-> 0,
     deletes |-> <<>>, audit |-> <<>>]

InitRest ==
    /\ race = NoRace
    /\ failures = <<>>
    /\ analysis = NoAnalysis
    /\ run = NoRun
    /\ ColInit

\* The deployment's default: CIRCUIT_BREAKER_ENABLED unset or 'true'.
Init == enabled = TRUE /\ InitStore /\ InitRest

\* CIRCUIT_BREAKER_ENABLED set to anything but 'true'.
InitDisabled == enabled = FALSE /\ InitStore /\ InitRest

\* Time passes between calls.
Tick ==
    /\ now < MaxTime
    /\ now' = now + 1
    /\ UNCHANGED <<enabled, store, seqvars, procvars, xvars>>

HoldsOpen(st, s) == st[s] # Absent /\ st[s].state = OPEN

RecordSuccess(s) ==
    \E rd, wr \in BOOLEAN :
        LET r == record_success(store, s, now, rd, wr)
        IN  /\ store' = r.store
            /\ last' = Call("record_success", s, rd, TRUE, wr, r)
            /\ clean' = [clean EXCEPT ![s] = @ /\ rd /\ wr]
            /\ streak' = [streak EXCEPT ![s] = 0]
            /\ stage' = [stage EXCEPT
                            ![s] = IF rd /\ wr /\ @ = "probe" THEN "closed" ELSE "none"]
            /\ UNCHANGED <<enabled, now, failAt, everOpen, procvars, xvars>>

\* streak counts the calls in a row, from a fresh record on, whose table accesses
\* all succeeded; 0 when no such run is under way.
RecordFailure(s) ==
    \E rd, wr \in BOOLEAN :
        LET r == record_failure(store, s, now, rd, wr)
            n == IF ~(rd /\ wr) THEN 0
                 ELSE IF Fresh(store, s) THEN 1
                 ELSE IF streak[s] > 0 THEN streak[s] + 1
                 ELSE 0
        IN  /\ get_circuit_state(store, s, now, rd).failure_count + 1 <= MaxCount
            /\ store' = r.store
            /\ last' = Call("record_failure", s, rd, TRUE, wr, r)
            /\ clean' = [clean EXCEPT ![s] = @ /\ rd /\ wr]
            /\ streak' = [streak EXCEPT ![s] = n]
            /\ stage' = [stage EXCEPT
                            ![s] = IF store[s] # Absent /\ store[s].state = HALF_OPEN
                                   THEN "reopened"
                                   ELSE IF n = CIRCUIT_BREAKER_FAILURE_THRESHOLD
                                   THEN "opened"
                                   ELSE "none"]
            /\ failAt' = [failAt EXCEPT ![s] = now]
            /\ everOpen' = [everOpen EXCEPT ![s] = @ \/ HoldsOpen(r.store, s)]
            /\ UNCHANGED <<enabled, now, procvars, xvars>>

ShouldAllowRequest(s) ==
    \E rd, rd2, wr \in BOOLEAN :
        LET r == should_allow_request(enabled, store, s, now, rd, rd2, wr)
            ok == rd /\ rd2 /\ wr
        IN  \* an access that is not made has no outcome to choose
            /\ r.reads < 1 => rd
            /\ r.reads < 2 => rd2
            /\ r.writes < 1 => wr
            /\ store' = r.store
            /\ last' = Call("should_allow_request", s, rd, rd2, wr, r)
            /\ clean' = [clean EXCEPT ![s] = @ /\ ok]
            /\ streak' = [streak EXCEPT ![s] = IF ok THEN @ ELSE 0]
            /\ stage' = [stage EXCEPT
                            ![s] = IF ~ok THEN "none"
                                   ELSE IF @ = "opened"
                                           /\ now - failAt[s] > CIRCUIT_BREAKER_TIMEOUT
                                   THEN "probe"
                                   ELSE @]
            /\ everOpen' = [everOpen EXCEPT ![s] = @ \/ HoldsOpen(r.store, s)]
            /\ UNCHANGED <<enabled, now, failAt, procvars, xvars>>

\* The names get_circuit_state is called with: the services and the empty name.
ServiceNames == Services \cup {""}

\* get_circuit_state(service_name) called on its own.
GetCircuitState(name) ==
    \E rd \in BOOLEAN :
        LET r == get_circuit_state(store, name, now, rd)
            known == name \in Services
        IN  \* an access that is not made has no outcome to choose
            /\ r = ValueError => rd
            /\ last' = [op |-> "get_circuit_state", svc |-> name, t |-> now,
                        pre |-> IF known THEN store[name] ELSE Absent,
                        rd |-> rd, rd2 |-> TRUE, wr |-> TRUE,
                        reads |-> IF r = ValueError THEN 0 ELSE 1,
                        writes |-> 0, ret |-> r]
            /\ clean' = [s \in Services |-> clean[s] /\ (s = name => rd)]
            /\ streak' = [s \in Services |->
                             IF s = name /\ ~rd THEN 0 ELSE streak[s]]
            /\ stage' = [s \in Services |->
                            IF s = name /\ ~rd THEN "none" ELSE stage[s]]
            /\ UNCHANGED <<enabled, store, now, failAt, everOpen, procvars, xvars>>

\* --------------------------------------------- overlapping invocations
\* Each invocation runs its call one table access at a time; nothing orders or
\* locks the accesses of different invocations.

Returned(p, stored, ret, writes) ==
    /\ pc' = [pc EXCEPT ![p] = "idle"]
    /\ loc' = [loc EXCEPT
                 ![p] = Locals(loc[p].op, loc[p].svc, None, None, stored, ret, writes,
                               \E q \in DOMAIN pc \ {p} : pc[q] # "idle")]

\* An invocation enters one of the three calls.
Invoke(p) ==
    /\ pc[p] = "idle"
    /\ \E op \in Ops, s \in Services :
        IF op = "should_allow_request" /\ ~enabled
        THEN /\ pc' = pc
             /\ loc' = [loc EXCEPT
                          ![p] = Locals(op, s, None, None, "none", TRUE, 0,
                                        \E q \in DOMAIN pc \ {p} : pc[q] # "idle")]
        ELSE /\ pc' = [pc EXCEPT ![p] = "get"]
             /\ loc' = [loc EXCEPT
                          ![p] = Locals(op, s, None, None, "none", None, 0, FALSE)]
    /\ UNCHANGED <<enabled, store, now, seqvars, xvars>>

\* The call's get_circuit_state; should_allow_request returns here unless it
\* goes on to _transition_to_half_open.
GetWith(p, rd) ==
    /\ pc[p] = "get"
    /\  LET l == loc[p]
            cur == get_circuit_state(store, l.svc, now, rd)
        IN  CASE l.op = "record_success" ->
                    /\ pc' = [pc EXCEPT ![p] = "put"]
                    /\ loc' = [loc EXCEPT
                                 ![p].current_state = cur,
                                 ![p].updated_state = record_success_item(cur, now),
                                 ![p].stored = StoredState(store, l.svc)]
              [] l.op = "record_failure" ->
                    /\ cur.failure_count + 1 <= MaxCount
                    /\ pc' = [pc EXCEPT ![p] = "put"]
                    /\ loc' = [loc EXCEPT
                                 ![p].current_state = cur,
                                 ![p].updated_state = record_failure_item(cur, now),
                                 ![p].stored = StoredState(store, l.svc)]
              [] l.op = "should_allow_request" ->
                    IF makes_transition(cur, now)
                    THEN /\ pc' = [pc EXCEPT ![p] = "reget"]
                         /\ loc' = [loc EXCEPT
                                      ![p].current_state = cur,
                                      ![p].stored = StoredState(store, l.svc)]
                    ELSE Returned(p, StoredState(store, l.svc),
                                  should_allow_return(cur, now), 0)
    /\ UNCHANGED <<enabled, store, now, seqvars, xvars>>

Get(p) == \E rd \in BOOLEAN : GetWith(p, rd)

\* The get_circuit_state of _transition_to_half_open.
ReGet(p) ==
    /\ pc[p] = "reget"
    /\ \E rd2 \in BOOLEAN :
        LET cur == get_circuit_state(store, loc[p].svc, now, rd2)
        IN  /\ pc' = [pc EXCEPT ![p] = "put"]
            /\ loc' = [loc EXCEPT ![p].updated_state = half_open_item(cur, now)]
    /\ UNCHANGED <<enabled, store, now, seqvars, xvars>>

\* PutWith whose record_failure counts from the record stored at the time of
\* the write instead of the one the call read.
PutWith_fresh(p, wr) ==
    /\ pc[p] = "put"
    /\  LET l == loc[p]
            item == IF l.op = "record_failure"
                    THEN record_failure_item(
                            get_circuit_state(store, l.svc, now, TRUE), now)
                    ELSE l.updated_state
        IN  /\ store' = put_item(store, item, wr)
            /\ Returned(p, l.stored,
                        CASE l.op = "record_success" -> None
                          [] l.op = "record_failure" ->
                                record_failure_return(l.current_state, wr)
                          [] l.op = "should_allow_request" -> TRUE,
                        1)
    /\ UNCHANGED <<enabled, now, seqvars, xvars>>

\* The call's put_item, after which it returns.
PutWith(p, wr) ==
    /\ pc[p] = "put"
    /\  LET l == loc[p]
        IN  /\ store' = put_item(store, l.updated_state, wr)
            /\ Returned(p, l.stored,
                        CASE l.op = "record_success" -> None
                          [] l.op = "record_failure" ->
                                record_failure_return(l.current_state, wr)
                          [] l.op = "should_allow_request" -> TRUE,
                        1)
    /\ UNCHANGED <<enabled, now, seqvars, xvars>>

Put(p) == \E wr \in BOOLEAN : PutWith(p, wr)

\* Time passes between the table accesses of the invocations.
ConcTick ==
    /\ now < ConcMaxTime
    /\ now' = now + 1
    /\ UNCHANGED <<enabled, store, seqvars, procvars, xvars>>

ConcNext ==
    \/ ConcTick
    \/ \E p \in Procs : Invoke(p)
    \/ \E p \in Procs : Get(p)
    \/ \E p \in Procs : ReGet(p)
    \/ \E p \in Procs : Put(p)

ConcSpec == Init /\ [][ConcNext]_vars

\* ------------------------------------------- racing record_failure calls
\* As many invocations as the threshold counts failures, each making one
\* record_failure call for the same service while the table answers every
\* request; the calls may follow one another or overlap in any way.
RaceProcs == 1 .. CIRCUIT_BREAKER_FAILURE_THRESHOLD

\* The counts the race starts from.
RaceStarts == 0 .. 1

RaceService == CHOOSE s \in Services : TRUE

\* The table after n record_failure calls made one after the other.
RECURSIVE AfterFailures(_, _)
AfterFailures(st, n) ==
    IF n = 0
    THEN st
    ELSE AfterFailures(record_failure(st, RaceService, 0, TRUE, TRUE).store, n - 1)

RaceInit ==
    /\ enabled = TRUE
    /\ \E c \in RaceStarts :
        /\ store = AfterFailures([s \in Services |-> Absent], c)
        /\ race = [c |-> c, together |-> FALSE]
    /\ failures = <<>>
    /\ analysis = NoAnalysis
    /\ run = NoRun
    /\ ColInit
    /\ now = 0
    /\ last = NoCall
    /\ clean = [s \in Services |-> TRUE]
    /\ streak = [s \in Services |-> 0]
    /\ stage = [s \in Services |-> "none"]
    /\ failAt = [s \in Services |-> 0]
    /\ everOpen = [s \in Services |-> FALSE]
    /\ pc = [p \in RaceProcs |-> "idle"]
    /\ loc = [p \in RaceProcs |-> NoLocals]

\* An invocation that has not run yet enters record_failure; together records
\* that all the invocations were inside their calls at the same time.
RaceInvoke(p) ==
    /\ pc[p] = "idle"
    /\ loc[p].op = "none"
    /\ pc' = [pc EXCEPT ![p] = "get"]
    /\ loc' = [loc EXCEPT
                 ![p] = Locals("record_failure", RaceService, None, None, "none",
                               None, 0, FALSE)]
    /\ race' = [race EXCEPT
                  !.together = @ \/ \A q \in RaceProcs \ {p} : pc[q] # "idle"]
    /\ UNCHANGED <<enabled, store, now, seqvars, failures, analysis, run, colvars>>

RaceNext ==
    \/ \E p \in RaceProcs : RaceInvoke(p)
    \/ \E p \in RaceProcs : GetWith(p, TRUE)
    \/ \E p \in RaceProcs : PutWith(p, TRUE)

RaceSpec == RaceInit /\ [][RaceNext]_vars

Next ==
    \/ Tick
    \/ \E s \in Services : RecordSuccess(s)
    \/ \E s \in Services : RecordFailure(s)
    \/ \E s \in Services : ShouldAllowRequest(s)
    \/ \E name \in ServiceNames : GetCircuitState(name)

Spec == Init /\ [][Next]_vars

DisabledSpec == InitDisabled /\ [][Next]_vars

TypeOK ==
    /\ enabled \in BOOLEAN
    /\ now \in Times
    /\ \A s \in Services :
        \/ store[s] = Absent
        \/ /\ store[s].service_name = s
           /\ store[s].state \in {CLOSED, OPEN, HALF_OPEN}
           /\ store[s].failure_count \in 0 .. MaxCount

\* ------------------------------------------------- failure patterns
\* Texts are strings; an optional text is None or <<text>>.

\* word in text
Contains(text, word) ==
    \E i \in 1 .. (Len(text) - Len(word) + 1) :
        SubSeq(text, i, i + Len(word) - 1) = word

UpperCase == "ABCDEFGHIJKLMNOPQRSTUVWXYZ"

LowerCase == "abcdefghijklmnopqrstuvwxyz"

\* The lower-case letter of every upper-case one.
LowerOf ==
    [c \in {SubSeq(UpperCase, i, i) : i \in 1 .. Len(UpperCase)} |->
        LET i == CHOOSE i \in 1 .. Len(UpperCase) : SubSeq(UpperCase, i, i) = c
        IN  SubSeq(LowerCase, i, i)]

\* str.lower() of one character.
lower_char(c) == IF c \in DOMAIN LowerOf THEN LowerOf[c] ELSE c

\* str.lower()
RECURSIVE lower(_)
lower(text) ==
    IF text = ""
    THEN ""
    ELSE lower_char(SubSeq(text, 1, 1)) \o lower(SubSeq(text, 2, Len(text)))

\* A workflow run as the hosting API returns it, reduced to the two fields
\* _analyze_failure_patterns reads: conclusion (None when missing or null) and
\* head_commit.message (None when the run has no head_commit or no message).
WorkflowRun(conclusion, message) == [conclusion |-> conclusion, message |-> message]

\* failure.get('conclusion') and 'timeout' in failure.get('conclusion', '').lower()
counts_as_timeout(failure) ==
    /\ failure.conclusion # None
    /\ failure.conclusion[1] # ""
    /\ Contains(lower(failure.conclusion[1]), "timeout")

\* failure.get('head_commit', {}).get('message', '').lower()
commit_msg(failure) ==
    IF failure.message = None THEN "" ELSE lower(failure.message[1])

DependencyWords == <<"dependency", "package", "npm", "pip", "yarn">>

\* any(word in commit_msg for word in [...])
counts_as_dependency(failure) ==
    \E k \in 1 .. Len(DependencyWords) :
        Contains(commit_msg(failure), DependencyWords[k])

\* The two counters after the loop over the first n failures.
RECURSIVE timeout_count(_, _)
timeout_count(fs, n) ==
    IF n = 0
    THEN 0
    ELSE timeout_count(fs, n - 1) + (IF counts_as_timeout(fs[n]) THEN 1 ELSE 0)

RECURSIVE dependency_count(_, _)
dependency_count(fs, n) ==
    IF n = 0
    THEN 0
    ELSE dependency_count(fs, n - 1) + (IF counts_as_dependency(fs[n]) THEN 1 ELSE 0)

\* _analyze_failure_patterns with the resource pattern tied to the timeout one.
_analyze_failure_patterns_tied(fs) ==
    (IF timeout_count(fs, Len(fs)) >= 2 THEN <<"timeout">> ELSE <<>>)
    \o (IF dependency_count(fs, Len(fs)) >= 2 THEN <<"dependency">> ELSE <<>>)
    \o (IF Len(fs) >= 3 /\ timeout_count(fs, Len(fs)) >= 2
        THEN <<"resource">> ELSE <<>>)

\* _analyze_failure_patterns(failures): the list of patterns it returns.
_analyze_failure_patterns(fs) ==
    (IF timeout_count(fs, Len(fs)) >= 2 THEN <<"timeout">> ELSE <<>>)
    \o (IF dependency_count(fs, Len(fs)) >= 2 THEN <<"dependency">> ELSE <<>>)
    \o (IF Len(fs) >= 3 THEN <<"resource">> ELSE <<>>)

\* Most failure records handed to the analysis at once.
MaxFailures == 3

\* The conclusions and commit messages of the runs analysed, and those among
\* them that a reader finds to hold 'timeout', or one of the dependency words,
\* whatever the case of the letters.
Conclusions == {None, <<"timed_out">>, <<"Job Timeout">>}

TimeoutConclusions == {<<"Job Timeout">>}

Messages == {None, <<"fix flaky test">>, <<"Bump NPM deps">>, <<"repair pipeline">>}

DependencyMessages == {<<"Bump NPM deps">>, <<"repair pipeline">>}

WorkflowRuns == {WorkflowRun(c, m) : c \in Conclusions, m \in Messages}

\* The lists of at most n records.
RECURSIVE ListsUpTo(_, _)
ListsUpTo(S, n) ==
    IF n = 0
    THEN {<<>>}
    ELSE LET shorter == ListsUpTo(S, n - 1)
         IN  shorter \cup {Append(l, x) : l \in shorter, x \in S}

PatternInit ==
    /\ enabled = TRUE
    /\ InitStore
    /\ race = NoRace
    /\ failures \in ListsUpTo(WorkflowRuns, MaxFailures)
    /\ analysis = NoAnalysis
    /\ run = NoRun
    /\ ColInit

AnalyzeFailurePatterns ==
    /\ ~analysis.done
    /\ analysis' = [done |-> TRUE, patterns |-> _analyze_failure_patterns(failures)]
    /\ UNCHANGED <<enabled, store, now, seqvars, procvars, race, failures, run, colvars>>

PatternNext == AnalyzeFailurePatterns

PatternSpec == PatternInit /\ [][PatternNext]_vars

\* ------------------------------------------------- RecoveryExecutor
_recover_timeout_issues ==
    <<"Increasing workflow timeout limits",
      "Optimizing slow test suites",
      "Implementing test parallelization">>

_recover_dependency_issues ==
    <<"Clearing dependency cache",
      "Updating package lock files",
      "Testing with pinned dependency versions">>

_recover_resource_issues ==
    <<"Scaling up runner resources",
      "Implementing build parallelization",
      "Optimizing resource allocation">>

_basic_pipeline_recovery ==
    <<"Restarting failed workflow",
      "Clearing temporary caches",
      "Validating runner environment">>

\* pattern in failure_patterns
HasPattern(failure_patterns, pattern) ==
    \E k \in 1 .. Len(failure_patterns) : failure_patterns[k] = pattern

\* plan_for_failures without the notice that opens the short plan.
plan_for_failures_bare(recent_failures) ==
    IF Len(recent_failures) >= 3
    THEN LET failure_patterns == _analyze_failure_patterns(recent_failures)
         IN  <<"Detected multiple recent failures, initiating comprehensive recovery">>
             \o (IF HasPattern(failure_patterns, "timeout")
                 THEN _recover_timeout_issues ELSE <<>>)
             \o (IF HasPattern(failure_patterns, "dependency")
                 THEN _recover_dependency_issues ELSE <<>>)
             \o (IF HasPattern(failure_patterns, "resource")
                 THEN _recover_resource_issues ELSE <<>>)
    ELSE _basic_pipeline_recovery

\* plan_for_failures that takes two recent failures for multiple ones.
plan_for_failures_eager(recent_failures) ==
    IF Len(recent_failures) >= 2
    THEN LET failure_patterns == _analyze_failure_patterns(recent_failures)
         IN  <<"Detected multiple recent failures, initiating comprehensive recovery">>
             \o (IF HasPattern(failure_patterns, "timeout")
                 THEN _recover_timeout_issues ELSE <<>>)
             \o (IF HasPattern(failure_patterns, "dependency")
                 THEN _recover_dependency_issues ELSE <<>>)
             \o (IF HasPattern(failure_patterns, "resource")
                 THEN _recover_resource_issues ELSE <<>>)
    ELSE <<"Single failure detected, attempting basic recovery">>
         \o _basic_pipeline_recovery

\* _recover_pipeline_failure: the actions it returns for the recent failures
\* that _get_recent_workflow_failures gave it.
plan_for_failures(recent_failures) ==
    IF Len(recent_failures) >= 3
    THEN LET failure_patterns == _analyze_failure_patterns(recent_failures)
         IN  <<"Detected multiple recent failures, initiating comprehensive recovery">>
             \o (IF HasPattern(failure_patterns, "timeout")
                 THEN _recover_timeout_issues ELSE <<>>)
             \o (IF HasPattern(failure_patterns, "dependency")
                 THEN _recover_dependency_issues ELSE <<>>)
             \o (IF HasPattern(failure_patterns, "resource")
                 THEN _recover_resource_issues ELSE <<>>)
    ELSE <<"Single failure detected, attempting basic recovery">>
         \o _basic_pipeline_recovery

\* _test_service_availability: requestOk is whether the request to the rate
\* limit endpoint was answered with status 200 (FALSE: another status or a
\* RequestException); services other than github are not asked.
_test_service_availability(service, requestOk) ==
    IF service = "github" THEN requestOk ELSE TRUE

\* A call the executor makes on one of its collaborators, with the text of
\* what it returned.
Made(op, service, ret) == [op |-> op, svc |-> service, ret |-> ret]

\* str() of a truth value.
Str(b) == IF b THEN "True" ELSE "False"

\* dependency_calls that probes the service whatever the breaker says.
dependency_calls_always_probing(service, allowed, available) ==
    <<Made("should_allow_request", service, Str(allowed)),
      Made("_test_service_availability", service, Str(available))>>
    \o (IF allowed
        THEN <<Made(IF available THEN "record_success" ELSE "record_failure",
                    service, "None")>>
        ELSE <<>>)

\* _recover_external_dependency_failure, one turn of its loop: the calls made
\* for the service, given what should_allow_request and the probe return.
dependency_calls(service, allowed, available) ==
    <<Made("should_allow_request", service, Str(allowed))>>
    \o (IF allowed
        THEN <<Made("_test_service_availability", service, Str(available)),
               Made(IF available THEN "record_success" ELSE "record_failure",
                    service, "None")>>
        ELSE <<>>)

\* The action appended in that turn.
dependency_action(service, allowed, available) ==
    IF ~allowed
    THEN "Circuit breaker active for " \o service \o ", using fallback mechanisms"
    ELSE IF available
    THEN "Service " \o service \o " recovered, circuit breaker reset"
    ELSE "Service " \o service \o " still failing, circuit breaker activated"

\* ------------------------------------------------------------ handler
\* An event is reduced to what the handler reads: Records (None, or <<list>> of
\* the AlarmName of each SNS record), failure_type (None or <<text>>) and
\* context (None or <<dict>>) with its failing_services (None or <<list>>),
\* the keys it holds besides and its runner_type (None or <<text>>).
Event(records, failure_type, context) ==
    [Records |-> records, failure_type |-> failure_type, context |-> context]

Context(failing_services) ==
    <<[failing_services |-> failing_services, keys |-> {}, runner_type |-> None]>>

\* A context that names no service: its other keys and its runner_type.
StepContext(keys, runner_type) ==
    <<[failing_services |-> None, keys |-> keys, runner_type |-> runner_type]>>

valid_types ==
    {"pipeline_failure", "performance_regression", "resource_exhaustion",
     "external_dependency_failure", "build_failure", "manual_recovery"}

\* not event
IsEmptyEvent(event) ==
    event.Records = None /\ event.failure_type = None /\ event.context = None

\* validate_event_input that lets every failure_type of a direct call through.
validate_event_input_lenient(event) == ~IsEmptyEvent(event)

\* validate_event_input: TRUE when it returns, FALSE when it raises ValueError.
\* The records drawn are all dictionaries from aws:sns.
validate_event_input(event) ==
    IF IsEmptyEvent(event) THEN FALSE
    ELSE IF event.Records # None THEN TRUE
    ELSE IF event.failure_type # None
    THEN event.failure_type[1] \in valid_types
    ELSE TRUE

\* The failure type the handler derives from an alarm name.
alarm_failure_type(alarm_name) ==
    IF Contains(alarm_name, "pipeline-failure-rate") THEN "pipeline_failure"
    ELSE IF Contains(alarm_name, "performance-regression") THEN "performance_regression"
    ELSE IF Contains(alarm_name, "duration-high") THEN "performance_regression"
    ELSE "unknown"

\* The handler's failure_type after parsing the event: <<type>>, or None when
\* no SNS record assigned it (the name is then unbound at its first use).
parsed_failure_type(event) ==
    IF event.Records # None
    THEN IF event.Records[1] = <<>>
         THEN None
         ELSE <<alarm_failure_type(event.Records[1][Len(event.Records[1])])>>
    ELSE IF event.failure_type # None
    THEN event.failure_type
    ELSE <<"manual_recovery">>

\* context.get('failing_services', ['github']) of the handler's failure_context
failing_services(event) ==
    IF event.Records # None \/ event.context = None
        \/ event.context[1].failing_services = None
    THEN <<"github">>
    ELSE event.context[1].failing_services[1]

\* The keys of the handler's failure_context that a recovery looks for, and
\* context.get('runner_type').
context_keys(event) ==
    IF event.Records # None \/ event.context = None
    THEN {}
    ELSE event.context[1].keys

runner_type(event) ==
    IF event.Records # None \/ event.context = None
    THEN None
    ELSE event.context[1].runner_type

\* The types execute_recovery_plan has a branch for.
dispatched_types ==
    {"pipeline_failure", "performance_regression", "resource_exhaustion",
     "external_dependency_failure", "build_failure"}

\* recovery_success that asks for no action at all.
recovery_success_of_nothing(recovery_actions) ==
    \A k \in 1 .. Len(recovery_actions) :
        ~Contains(lower(recovery_actions[k]), "failed")

\* 'failed' in no action, and at least one action
recovery_success(recovery_actions) ==
    /\ Len(recovery_actions) > 0
    /\ \A k \in 1 .. Len(recovery_actions) :
        ~Contains(lower(recovery_actions[k]), "failed")

\* The events drawn: the empty event, direct invocations and alarms.  Alarms
\* and types that lead to performance_regression, resource_exhaustion or
\* build_failure are drawn apart, as StepEvents.
AlarmNames == {"ci-pipeline-failure-rate", "ci-cost-anomaly"}

DirectTypes ==
    {None, <<"pipeline_failure">>, <<"external_dependency_failure">>,
     <<"manual_recovery">>, <<"deploy_failure">>}

Contexts ==
    {None, Context(None), Context(<<<<>>>>), Context(<<<<"github">>>>),
     Context(<<<<"github", "github">>>>), Context(<<<<"", "github">>>>),
     Context(<<<<"github", "">>>>)}

Events ==
    {e \in {Event(None, t, c) : t \in DirectTypes, c \in Contexts} :
        \* a list of services comes with the type that reads it
        e.failure_type = <<"external_dependency_failure">>
            \/ e.context \in {None, Context(None)}}
    \cup {Event(<<<<>>>>, None, None)}
    \cup {Event(<<<<a>>>>, None, None) : a \in AlarmNames}

\* Last instant of the clock between invocations of the handler.
HandlerMaxTime == CIRCUIT_BREAKER_TIMEOUT + 1

\* send_recovery_notification: the one sns.publish it attempts, with the
\* severity of its message; publishOk is whether the topic took the message (an
\* exception of the publish is logged and goes no further).
send_recovery_notification(failure_type, success, publishOk) ==
    [failure_type |-> failure_type,
     severity |-> IF success THEN "INFO" ELSE "ERROR",
     delivered |-> publishOk]

\* The handler's except branches without their notification.
Failed_unnotified(error, source, given, publishOk) ==
    [NoRun EXCEPT
        !.phase = "done", !.source = source, !.given = given,
        !.error = error, !.statusCode = 500]

\* The except branches of the handler: a notification of the failure and
\* status 500.
Failed(error, source, given, publishOk) ==
    [NoRun EXCEPT
        !.phase = "done", !.source = source, !.given = given,
        !.error = error, !.statusCode = 500,
        !.notified = <<[failure_type |-> "recovery_system_failure",
                        success |-> FALSE]>>,
        !.published = <<send_recovery_notification("recovery_system_failure",
                                                   FALSE, publishOk)>>]

\* The handler up to the call of execute_recovery_plan: validate_environment
\* (envOk: no required variable is missing), validate_event_input,
\* get_github_token (tokenOk: the secret was read and holds a token) and the
\* parsing of the event.
Begin(event, envOk, tokenOk) ==
    /\ run.phase = "idle"
    \* the token is not asked for once an earlier step has failed
    /\ (~envOk \/ ~validate_event_input(event)) => tokenOk
    /\ \E publishOk \in BOOLEAN :
       LET source == IF event.Records # None THEN "alarm" ELSE "direct"
           given == IF event.Records # None
                    THEN parsed_failure_type(event)
                    ELSE event.failure_type
       IN  \* nothing is published here when no step has failed
           /\ (envOk /\ validate_event_input(event) /\ tokenOk
                 /\ parsed_failure_type(event) # None) => publishOk
           /\ run' =
            IF ~envOk THEN Failed("ConfigurationError", source, given, publishOk)
            ELSE IF ~validate_event_input(event)
            THEN Failed("ValueError", source, given, publishOk)
            ELSE IF ~tokenOk THEN Failed("ConfigurationError", source, given, publishOk)
            ELSE IF parsed_failure_type(event) = None
            THEN Failed("UnboundLocalError", source, given, publishOk)
            ELSE LET failure_type == parsed_failure_type(event)[1]
                     services == IF failure_type = "external_dependency_failure"
                                 THEN failing_services(event) ELSE <<>>
                 IN  [NoRun EXCEPT
                         !.phase = IF failure_type = "external_dependency_failure"
                                       /\ services = <<>>
                                   THEN "log" ELSE "recover",
                         !.source = source,
                         !.given = given,
                         !.failure_type = failure_type,
                         !.failing_services = services,
                         !.todo = services,
                         !.context_keys = context_keys(event),
                         !.runner_type = runner_type(event)]
    /\ UNCHANGED <<enabled, store, now, seqvars, procvars, race, failures, analysis, colvars>>
\* _get_recent_workflow_failures: what the hosting API answers.  The runs of
\* an answer are drawn from four kinds, listed kind by kind.
ApiRuns ==
    <<WorkflowRun(None, None),
      WorkflowRun(<<"Job Timeout">>, <<"fix flaky test">>),
      WorkflowRun(<<"timed_out">>, <<"Bump NPM deps">>),
      WorkflowRun(<<"Job Timeout">>, <<"repair pipeline">>)>>

ApiRunLists ==
    {[i \in 1 .. Len(ks) |-> ApiRuns[ks[i]]] :
        ks \in {l \in ListsUpTo(1 .. Len(ApiRuns), MaxFailures) :
                    \A i \in 1 .. Len(l) - 1 : l[i] <= l[i + 1]}}

ApiAnswers ==
    {[kind |-> "ok", workflow_runs |-> l] : l \in ApiRunLists}
    \cup {[kind |-> "status", workflow_runs |-> <<>>],
          [kind |-> "RequestException", workflow_runs |-> <<>>]}

NoAnswer == [kind |-> "none", workflow_runs |-> <<>>]

\* pipeline_calls that asks the hosting API whatever the breaker says.
pipeline_calls_ungated(allowed, kind) ==
    <<Made("should_allow_request", "github", Str(allowed)),
      Made("get_workflow_runs", "github", kind),
      Made(IF kind = "ok" THEN "record_success" ELSE "record_failure",
           "github", "None")>>

\* pipeline_calls that leaves the circuit of github alone after the request.
pipeline_calls_unrecorded(allowed, kind) ==
    <<Made("should_allow_request", "github", Str(allowed))>>
    \o (IF allowed
        THEN <<Made("get_workflow_runs", "github", kind)>>
             \o (IF kind = "ok"
                 THEN <<Made("record_success", "github", "None")>>
                 ELSE <<>>)
        ELSE <<>>)

\* _get_recent_workflow_failures: the calls it makes, given what
\* should_allow_request returned and the kind of answer of the hosting API.
pipeline_calls(allowed, kind) ==
    <<Made("should_allow_request", "github", Str(allowed))>>
    \o (IF allowed
        THEN <<Made("get_workflow_runs", "github", kind),
               Made(IF kind = "ok" THEN "record_success" ELSE "record_failure",
                    "github", "None")>>
        ELSE <<>>)

\* _recover_pipeline_failure: _get_recent_workflow_failures, guarded by the
\* breaker of github, then the plan for the failures it returned.
RecoverPipelineFailure ==
    /\ run.phase = "recover"
    /\ run.failure_type = "pipeline_failure"
    /\ \E answer \in ApiAnswers \cup {NoAnswer} :
        \E recent_failures \in {answer.workflow_runs} :
        \E actions \in {plan_for_failures(recent_failures)} :
            \E rd, rd2, wr \in BOOLEAN :
            LET a == should_allow_request(enabled, store, "github", now, rd, rd2, wr)
            IN  /\ a.reads < 1 => rd
                /\ a.reads < 2 => rd2
                /\ a.writes < 1 => wr
                /\ a.ret <=> answer # NoAnswer
                /\ \E rdr, wrr \in BOOLEAN :
                    LET r == IF answer.kind = "ok"
                             THEN record_success(a.store, "github", now, rdr, wrr)
                             ELSE record_failure(a.store, "github", now, rdr, wrr)
                    IN  /\ ~a.ret => rdr /\ wrr
                        /\ (a.ret /\ answer.kind # "ok")
                            => get_circuit_state(a.store, "github", now, rdr).failure_count
                                   + 1 <= MaxCount
                        /\ store' = IF a.ret THEN r.store ELSE a.store
                        /\ run' = [run EXCEPT
                                     !.phase = "log",
                                     !.recent_failures = recent_failures,
                                     !.recovery_actions = actions,
                                     !.calls = pipeline_calls(a.ret, answer.kind)]
    /\ UNCHANGED <<enabled, now, seqvars, procvars, race, failures, analysis, colvars>>

\* One turn of the loop of _recover_external_dependency_failure: the first of
\* the services still to handle.
RecoverService ==
    /\ run.phase = "recover"
    /\ run.failure_type = "external_dependency_failure"
    /\ run.todo # <<>>
    /\ Head(run.todo) # ""
    /\ LET service == Head(run.todo)
       IN  \E rd, rd2, wr \in BOOLEAN :
            LET a == should_allow_request(enabled, store, service, now, rd, rd2, wr)
            IN  /\ a.reads < 1 => rd
                /\ a.reads < 2 => rd2
                /\ a.writes < 1 => wr
                /\ \E requestOk, rdr, wrr \in BOOLEAN :
                    LET available == _test_service_availability(service, requestOk)
                        r == IF available
                             THEN record_success(a.store, service, now, rdr, wrr)
                             ELSE record_failure(a.store, service, now, rdr, wrr)
                    IN  /\ ~a.ret => requestOk /\ rdr /\ wrr
                        /\ (a.ret /\ ~available)
                            => get_circuit_state(a.store, service, now, rdr).failure_count
                                   + 1 <= MaxCount
                        /\ store' = IF a.ret THEN r.store ELSE a.store
                        /\ run' = [run EXCEPT
                                     !.phase = IF Tail(run.todo) = <<>>
                                               THEN "log" ELSE "recover",
                                     !.todo = Tail(run.todo),
                                     !.recovery_actions =
                                        Append(@, dependency_action(service, a.ret,
                                                                    available)),
                                     !.calls =
                                        @ \o dependency_calls(service, a.ret, available)]
    /\ UNCHANGED <<enabled, now, seqvars, procvars, race, failures, analysis, colvars>>

\* RecoverNameless that takes the ValueError for a step that failed: the
\* turns end there and the plan goes on to the audit log.
RecoverNameless_absorbed ==
    /\ run.phase = "recover"
    /\ run.failure_type = "external_dependency_failure"
    /\ run.todo # <<>>
    /\ Head(run.todo) = ""
    /\ enabled
    /\ run' = [run EXCEPT
                 !.phase = "log",
                 !.calls = Append(run.calls,
                                  Made("should_allow_request", "", "ValueError"))]
    /\ UNCHANGED <<enabled, store, now, seqvars, procvars, race, failures, analysis, colvars>>

\* A turn for a service without a name: get_circuit_state raises ValueError
\* inside should_allow_request, nothing on the way catches it before
\* execute_recovery_plan turns it into RecoveryError, and the handler answers
\* with status 500.
RecoverNameless ==
    /\ run.phase = "recover"
    /\ run.failure_type = "external_dependency_failure"
    /\ run.todo # <<>>
    /\ Head(run.todo) = ""
    /\ enabled
    /\ get_circuit_state(store, Head(run.todo), now, TRUE) = ValueError
    /\ \E publishOk \in BOOLEAN :
        run' = [Failed("RecoveryError", run.source, run.given, publishOk) EXCEPT
                  !.failing_services = run.failing_services,
                  !.todo = run.todo,
                  !.calls = Append(run.calls,
                                   Made("should_allow_request", "", "ValueError"))]
    /\ UNCHANGED <<enabled, store, now, seqvars, procvars, race, failures, analysis, colvars>>

\* The else branch of execute_recovery_plan.
RecoverUnknown ==
    /\ run.phase = "recover"
    /\ run.failure_type \notin dispatched_types
    /\ run' = [run EXCEPT
                 !.phase = "log",
                 !.recovery_actions =
                    <<"Unknown failure type: " \o run.failure_type>>]
    /\ UNCHANGED <<enabled, store, now, seqvars, procvars, race, failures, analysis, colvars>>

\* _log_recovery_actions: the entry handed to s3.put_object; putOk is whether
\* the object was stored (an exception of the write is logged and goes no
\* further).  The entry's success is the constant the code writes.
_log_recovery_actions(failure_type, actions, putOk) ==
    [failure_type |-> failure_type, recovery_actions |-> actions,
     success |-> TRUE, stored |-> putOk]

\* The end of a recovery without the notification.
Finish_unpublished ==
    /\ run.phase = "log"
    /\ \E putOk \in BOOLEAN :
       run' = [run EXCEPT
                 !.phase = "done",
                 !.calls = Append(@, Made("put_object", "s3", "None")),
                 !.audit = <<_log_recovery_actions(run.failure_type,
                                                   run.recovery_actions, putOk)>>,
                 !.notified = <<[failure_type |-> run.failure_type,
                                 success |-> recovery_success(run.recovery_actions)]>>,
                 !.statusCode = 200]
    /\ UNCHANGED <<enabled, store, now, seqvars, procvars, race, failures, analysis, colvars>>

\* The end of execute_recovery_plan and of the handler: the audit write of
\* _log_recovery_actions (whose errors are swallowed), the notification and
\* the response.
Finish ==
    /\ run.phase = "log"
    /\ \E success \in {recovery_success(run.recovery_actions)} :
        \E publishOk, putOk \in BOOLEAN :
            run' = [run EXCEPT
                     !.phase = "done",
                     !.calls = Append(@, Made("put_object", "s3", "None")),
                     !.audit = <<_log_recovery_actions(run.failure_type,
                                                       run.recovery_actions, putOk)>>,
                     !.notified = <<[failure_type |-> run.failure_type,
                                     success |-> success]>>,
                     !.published =
                        <<send_recovery_notification(run.failure_type, success,
                                                     publishOk)>>,
                     !.statusCode = 200]
    /\ UNCHANGED <<enabled, store, now, seqvars, procvars, race, failures, analysis, colvars>>

\* The handler has returned its response: the invocation is over, and the next
\* one starts with nothing of it but what the store holds.
HandlerReturn ==
    /\ run.phase = "done"
    /\ run' = NoRun
    /\ UNCHANGED <<enabled, store, now, seqvars, procvars, race, failures, analysis,
                   colvars>>

\* Time passes between invocations of the handler.
HandlerTick ==
    /\ run.phase = "idle"
    /\ now < HandlerMaxTime
    /\ now' = now + 1
    /\ UNCHANGED <<enabled, store, seqvars, procvars, xvars>>

HandlerNext ==
    \/ HandlerTick
    \/ \E event \in Events, envOk, tokenOk \in BOOLEAN : Begin(event, envOk, tokenOk)
    \/ RecoverPipelineFailure
    \/ RecoverService
    \/ RecoverNameless
    \/ RecoverUnknown
    \/ Finish
    \/ HandlerReturn

HandlerSpec == Init /\ [][HandlerNext]_vars

\* ------------------------------------------------------------ recovery steps
\* The names the executor builds from GITHUB_OWNER and GITHUB_REPO.
GITHUB_OWNER == "hemzaz"

GITHUB_REPO == "freightliner"

functions == <<"pipeline-metrics-collector", "performance-monitor">>

func_name(func_suffix) == GITHUB_OWNER \o "-" \o GITHUB_REPO \o "-" \o func_suffix

\* The largest memory the scaling asks for.
MaxLambdaMemory == 3008

Min(a, b) == IF a <= b THEN a ELSE b

\* min(3008, int(current_memory * scale_factor)) for the factor 1.5 that
\* _recover_performance_regression passes: int() drops the half of an odd
\* product.
new_memory(current_memory) == Min(MaxLambdaMemory, (current_memory * 3) \div 2)

\* The memory sizes a function is found with, and what
\* get_function_configuration answers: a configuration, or a ClientError that
\* is ResourceNotFoundException or another one.
MemorySizes == {128, 129, 2005, 2006, MaxLambdaMemory, 4096}

ConfigAnswers ==
    {[kind |-> "ok", MemorySize |-> m] : m \in MemorySizes}
    \cup {[kind |-> "ResourceNotFoundException", MemorySize |-> 0],
          [kind |-> "ClientError", MemorySize |-> 0]}

\* _scale_lambda_functions, one turn of its loop: the calls on the
\* configuration service, the update asked for and the action appended.
\* updateOk is whether update_function_configuration returned; a ClientError
\* of either call is logged (ResourceNotFoundException not even that) and the
\* loop goes on.
scale_function(func_suffix, config, updateOk) ==
    LET name == func_name(func_suffix)
        current_memory == config.MemorySize
        new == new_memory(current_memory)
        read == Made("get_function_configuration", name, config.kind)
    IN  IF config.kind # "ok" \/ new = current_memory
        THEN [actions |-> <<>>, calls |-> <<read>>, updates |-> <<>>]
        ELSE [actions |->
                IF updateOk
                THEN <<"Scaled " \o name \o " memory from "
                       \o ToString(current_memory) \o "MB to "
                       \o ToString(new) \o "MB">>
                ELSE <<>>,
              calls |->
                <<read,
                  Made("update_function_configuration", name,
                       IF updateOk THEN "ok" ELSE "ClientError")>>,
              updates |->
                <<[FunctionName |-> name, MemorySize |-> new,
                   applied |-> updateOk]>>]

\* _scale_lambda_functions: the turns for the listed functions, from the k-th
\* on.
RECURSIVE scale_from(_, _, _)
scale_from(k, configs, updateOks) ==
    IF k > Len(functions)
    THEN [actions |-> <<>>, calls |-> <<>>, updates |-> <<>>]
    ELSE LET one == scale_function(functions[k], configs[k], updateOks[k])
             rest == scale_from(k + 1, configs, updateOks)
         IN  [actions |-> one.actions \o rest.actions,
              calls |-> one.calls \o rest.calls,
              updates |-> one.updates \o rest.updates]

_scale_lambda_functions(configs, updateOks) == scale_from(1, configs, updateOks)

\* _recover_performance_regression around what the scaling returned.
_recover_performance_regression(scaled_functions) ==
    <<"Scaling up Lambda memory for performance-critical functions">>
    \o scaled_functions
    \o <<"Clearing CloudWatch metrics cache",
         "Triggering performance baseline recalculation">>

\* The default of days_old, in days.
days_old == 30

\* The largest number of keys handed to one delete_objects call; the executor's
\* 1000 is scaled down to keep listings small.
DeleteBatchLimit == 2

\* A stored object: its key and its age in days, the time from LastModified to
\* datetime.now().
S3Object(key, age) == [Key |-> key, age |-> age]

\* obj['LastModified'] < cutoff_date, the cutoff lying days_old before now
\* and objects as old as the cutoff itself not counted.
is_old_inclusive(obj) == obj.age >= days_old

\* obj['LastModified'] < cutoff_date, the cutoff lying days_old before now.
is_old(obj) == obj.age > days_old

\* The state of _cleanup_old_s3_data while it runs: objects_to_delete, the
\* batches handed to delete_objects so far, the actions, the number of calls
\* made on the store and whether the last of them raised ClientError.
CleanupStart ==
    [objects_to_delete |-> <<>>, deletes |-> <<>>, actions |-> <<>>,
     n |-> 0, failed |-> FALSE]

\* A delete_objects call for objects_to_delete; it is the call that fails when
\* it is the fail-th call on the store.
delete_batch(st, text, fail) ==
    IF st.n + 1 = fail
    THEN [st EXCEPT !.n = @ + 1, !.failed = TRUE]
    ELSE [st EXCEPT
            !.n = @ + 1,
            !.deletes = Append(@, st.objects_to_delete),
            !.actions = Append(@, "Deleted " \o text \o " of "
                                  \o ToString(Len(st.objects_to_delete))
                                  \o " old objects"),
            !.objects_to_delete = <<>>]

\* The inner loop over the objects of a page.
RECURSIVE cleanup_objects(_, _, _)
cleanup_objects(contents, st, fail) ==
    IF st.failed \/ contents = <<>>
    THEN st
    ELSE LET obj == Head(contents)
             kept == IF is_old(obj)
                     THEN [st EXCEPT !.objects_to_delete = Append(@, [Key |-> obj.Key])]
                     ELSE st
         IN  cleanup_objects(
                Tail(contents),
                IF Len(kept.objects_to_delete) >= DeleteBatchLimit
                THEN delete_batch(kept, "batch", fail)
                ELSE kept,
                fail)

\* The outer loop over the pages; the paginator asks the store for each page.
RECURSIVE cleanup_pages(_, _, _)
cleanup_pages(pages, st, fail) ==
    IF st.failed \/ pages = <<>>
    THEN st
    ELSE IF st.n + 1 = fail
    THEN [st EXCEPT !.n = @ + 1, !.failed = TRUE]
    ELSE cleanup_pages(Tail(pages),
                       cleanup_objects(Head(pages), [st EXCEPT !.n = @ + 1], fail),
                       fail)

\* _cleanup_old_s3_data for a listing given as its pages; fail is the number of
\* the call on the store that raises ClientError, 0 when none does.
_cleanup_old_s3_data(pages, fail) ==
    LET looped == cleanup_pages(pages, CleanupStart, fail)
        st == IF ~looped.failed /\ looped.objects_to_delete # <<>>
              THEN delete_batch(looped, "final batch", fail)
              ELSE looped
    IN  [st EXCEPT
            !.actions = IF st.failed
                        THEN Append(@, "S3 cleanup failed: ClientError")
                        ELSE @]

\* The keys _recover_resource_exhaustion looks for in the context.
ContextKeys == {"lambda_throttling", "storage_full", "dynamodb_throttling"}

_recover_resource_exhaustion(keys, cleaned_objects) ==
    (IF "lambda_throttling" \in keys
     THEN <<"Increasing Lambda provisioned concurrency">> ELSE <<>>)
    \o (IF "storage_full" \in keys
        THEN <<"Cleaning up old monitoring data from S3">> \o cleaned_objects
        ELSE <<>>)
    \o (IF "dynamodb_throttling" \in keys
        THEN <<"Temporarily increasing DynamoDB capacity">> ELSE <<>>)

_recover_build_failure(runner) ==
    <<"Clearing build cache to resolve potential cache corruption">>
    \o (IF runner = <<"ubuntu-latest">>
        THEN <<"Retrying build with ubuntu-20.04 runner for compatibility">>
        ELSE <<>>)
    \o <<"Analyzing dependency conflicts">>

\* The listings drawn: a page of up to one object more than a batch holds,
\* alone or followed by a second page of at most one object; the objects are
\* a day younger than the cutoff, as old as it, or a day older.
Ages == {days_old - 1, days_old, days_old + 1}

PageOf(p, ages) ==
    [i \in 1 .. Len(ages) |-> S3Object(<<p, i>>, ages[i])]

Listings ==
    {<<PageOf(1, a)>> : a \in ListsUpTo(Ages, DeleteBatchLimit + 1)}
    \cup {<<PageOf(1, a), PageOf(2, b)>> :
            a \in ListsUpTo(Ages, DeleteBatchLimit + 1), b \in ListsUpTo(Ages, 1)}

\* The events that lead to the recoveries of this section.
StepAlarmNames == {"ci-performance-regression", "lambda-duration-high"}

StepTypes ==
    {<<"performance_regression">>, <<"resource_exhaustion">>, <<"build_failure">>}

StepContexts ==
    {None}
    \cup {StepContext(keys, None) : keys \in SUBSET ContextKeys}
    \cup {StepContext({}, <<r>>) : r \in {"ubuntu-latest", "windows-latest"}}

StepEvents ==
    {Event(None, t, c) : t \in StepTypes, c \in StepContexts}
    \cup {Event(<<<<a>>>>, None, None) : a \in StepAlarmNames}

RecoverPerformanceRegression ==
    /\ run.phase = "recover"
    /\ run.failure_type = "performance_regression"
    /\ \E configs \in ConfigAnswers \X ConfigAnswers, updateOks \in BOOLEAN \X BOOLEAN :
        LET scaled == _scale_lambda_functions(configs, updateOks)
        IN  \* an update that is not asked for has no outcome
            /\ \A k \in 1 .. Len(functions) :
                scale_function(functions[k], configs[k], TRUE).updates = <<>>
                    => updateOks[k]
            /\ run' = [run EXCEPT
                         !.phase = "log",
                         !.configs = configs,
                         !.updates = scaled.updates,
                         !.calls = scaled.calls,
                         !.recovery_actions =
                            _recover_performance_regression(scaled.actions)]
    /\ UNCHANGED <<enabled, store, now, seqvars, procvars, race, failures, analysis, colvars>>

RecoverResourceExhaustion ==
    /\ run.phase = "recover"
    /\ run.failure_type = "resource_exhaustion"
    /\ IF "storage_full" \in run.context_keys
       THEN \E pages \in Listings :
             \E fail \in 0 .. _cleanup_old_s3_data(pages, 0).n :
                LET cleaned == _cleanup_old_s3_data(pages, fail)
                IN  run' = [run EXCEPT
                              !.phase = "log",
                              !.listing = pages,
                              !.s3_fail = fail,
                              !.deletes = cleaned.deletes,
                              !.recovery_actions =
                                 _recover_resource_exhaustion(run.context_keys,
                                                              cleaned.actions)]
       ELSE run' = [run EXCEPT
                      !.phase = "log",
                      !.recovery_actions =
                         _recover_resource_exhaustion(run.context_keys, <<>>)]
    /\ UNCHANGED <<enabled, store, now, seqvars, procvars, race, failures, analysis, colvars>>

RecoverBuildFailure ==
    /\ run.phase = "recover"
    /\ run.failure_type = "build_failure"
    /\ run' = [run EXCEPT
                 !.phase = "log",
                 !.recovery_actions = _recover_build_failure(run.runner_type)]
    /\ UNCHANGED <<enabled, store, now, seqvars, procvars, race, failures, analysis, colvars>>

StepsNext ==
    \/ \E event \in StepEvents, envOk, tokenOk \in BOOLEAN : Begin(event, envOk, tokenOk)
    \/ RecoverPerformanceRegression
    \/ RecoverResourceExhaustion
    \/ RecoverBuildFailure
    \/ Finish
    \/ HandlerReturn

StepsSpec == Init /\ [][StepsNext]_vars

\* ------------------------------------------------------------ claims
\* The call that returned last, its service and the record stored before it.
LastIs(op, s) == last.op = op /\ last.svc = s

PreCount == IF last.pre = Absent THEN 0 ELSE last.pre.failure_count

PreLastFailure == IF last.pre = Absent THEN None ELSE last.pre.last_failure

PreState(state) == last.pre # Absent /\ last.pre.state = state

\* Seconds from the stored last_failure to the call.
SinceStoredFailure == last.t - fromisoformat(last.pre.last_failure)

\* C1: from a fresh record and with every table access succeeding, the n-th
\* record_failure in a row returns CLOSED for n below the threshold and OPEN for
\* n equal to it, the record is then OPEN, and a should_allow_request made
\* while the timeout has not passed since that failure returns false.
C1_ThresholdOpensCircuit ==
    \A s \in Services :
        /\ (LastIs("record_failure", s) /\ streak[s] > 0
                /\ streak[s] <= CIRCUIT_BREAKER_FAILURE_THRESHOLD)
            => /\ last.ret = IF streak[s] = CIRCUIT_BREAKER_FAILURE_THRESHOLD
                             THEN OPEN ELSE CLOSED
               /\ streak[s] = CIRCUIT_BREAKER_FAILURE_THRESHOLD => HoldsOpen(store, s)
        /\ (LastIs("should_allow_request", s)
                /\ streak[s] = CIRCUIT_BREAKER_FAILURE_THRESHOLD
                /\ last.t - failAt[s] <= CIRCUIT_BREAKER_TIMEOUT)
            => last.ret = FALSE

C1_Witness ==
    \E s \in Services :
        /\ LastIs("should_allow_request", s)
        /\ streak[s] = CIRCUIT_BREAKER_FAILURE_THRESHOLD
        /\ last.t - failAt[s] <= CIRCUIT_BREAKER_TIMEOUT
        /\ last.ret = FALSE

\* C2: should_allow_request returns true for a service whose stored
\* failure_count is below the threshold and for which OPEN was never stored.
C2_AllowsBelowThreshold ==
    \A s \in Services :
        (LastIs("should_allow_request", s) /\ ~everOpen[s]
            /\ PreCount < CIRCUIT_BREAKER_FAILURE_THRESHOLD)
        => last.ret = TRUE

C2_Witness ==
    \E s \in Services :
        /\ LastIs("should_allow_request", s) /\ ~everOpen[s]
        /\ PreCount > 0 /\ PreCount < CIRCUIT_BREAKER_FAILURE_THRESHOLD
        /\ last.ret = TRUE

\* The stored record is OPEN and more than the timeout has passed since its
\* last_failure when should_allow_request is called.
C3_Case ==
    /\ last.op = "should_allow_request"
    /\ PreState(OPEN)
    /\ last.pre.last_failure # None
    /\ SinceStoredFailure > CIRCUIT_BREAKER_TIMEOUT

\* C3 as stated: in that case should_allow_request returns true and the stored
\* record on return is HALF_OPEN with failure_count and last_failure unchanged.
C3_AsStated ==
    C3_Case =>
        /\ last.ret = TRUE
        /\ store[last.svc] # Absent
        /\ store[last.svc].state = HALF_OPEN
        /\ store[last.svc].failure_count = last.pre.failure_count
        /\ store[last.svc].last_failure = last.pre.last_failure

\* C3 (amended): in that case should_allow_request returns true; if its first
\* read and the write of the transition succeed the stored record on return is
\* HALF_OPEN, with failure_count and last_failure unchanged when the re-read
\* succeeded and with failure_count 0 and no last_failure when the re-read
\* failed; if the first read or the write fails the record is left as it was.
C3_HalfOpenAfterTimeout ==
    C3_Case =>
        /\ last.ret = TRUE
        /\ IF last.rd /\ last.wr
           THEN /\ store[last.svc] # Absent
                /\ store[last.svc].state = HALF_OPEN
                /\ store[last.svc].service_name = last.svc
                /\ IF last.rd2
                   THEN /\ store[last.svc].failure_count = last.pre.failure_count
                        /\ store[last.svc].last_failure = last.pre.last_failure
                   ELSE /\ store[last.svc].failure_count = 0
                        /\ store[last.svc].last_failure = None
           ELSE store[last.svc] = last.pre

C3_Witness ==
    /\ C3_Case
    /\ last.rd /\ last.rd2 /\ last.wr
    /\ store[last.svc].state = HALF_OPEN

\* The stored record is OPEN and at most the timeout has passed since its
\* last_failure when should_allow_request is called.
C4_Case ==
    /\ last.op = "should_allow_request"
    /\ PreState(OPEN)
    /\ last.pre.last_failure # None
    /\ SinceStoredFailure <= CIRCUIT_BREAKER_TIMEOUT

\* C4 as stated: in that case should_allow_request returns false and leaves the
\* stored record unchanged.
C4_AsStated ==
    C4_Case => last.ret = FALSE /\ store[last.svc] = last.pre

\* C4 (amended): in that case should_allow_request leaves the stored record
\* unchanged and returns false when its read of the record succeeds; when the
\* read fails it returns true.
C4_DeniesWithinTimeout ==
    C4_Case => last.ret = (~last.rd) /\ store[last.svc] = last.pre

C4_Witness ==
    /\ C4_Case
    /\ last.rd
    /\ SinceStoredFailure = CIRCUIT_BREAKER_TIMEOUT
    /\ last.ret = FALSE

\* Two record_success calls in a row whose writes succeed leave the state and
\* failure_count that the first of them leaves.
RecordSuccessTwice ==
    \A s \in Services : \A rd1, rd2 \in BOOLEAN :
        LET once == record_success(store, s, now, rd1, TRUE).store
            twice == record_success(once, s, now, rd2, TRUE).store
        IN  /\ twice[s].state = once[s].state
            /\ twice[s].failure_count = once[s].failure_count

\* C5 as stated: after record_success the stored record is CLOSED with
\* failure_count 0 and last_failure as it was, whatever was stored before; two
\* calls in a row leave the state and failure_count of one.
C5_AsStated ==
    /\ last.op = "record_success" =>
        /\ store[last.svc] # Absent
        /\ store[last.svc].state = CLOSED
        /\ store[last.svc].failure_count = 0
        /\ store[last.svc].last_failure = PreLastFailure
    /\ RecordSuccessTwice

\* C5 (amended): after a record_success whose write succeeds the stored record is
\* CLOSED with failure_count 0, with last_failure as it was when the read
\* succeeded and empty when the read failed; when the write fails the stored
\* record is left as it was; two calls in a row whose writes succeed leave the
\* state and failure_count of one.
C5_SuccessResets ==
    /\ last.op = "record_success" =>
        IF last.wr
        THEN /\ store[last.svc] # Absent
             /\ store[last.svc].state = CLOSED
             /\ store[last.svc].failure_count = 0
             /\ store[last.svc].last_failure = IF last.rd THEN PreLastFailure ELSE None
        ELSE store[last.svc] = last.pre
    /\ RecordSuccessTwice

C5_Witness ==
    /\ last.op = "record_success"
    /\ last.rd /\ last.wr
    /\ PreState(HALF_OPEN)
    /\ PreCount > 0
    /\ store[last.svc].state = CLOSED

\* C6 as stated: record_failure raises the stored failure_count by one, stores
\* the current time as last_failure and returns the state the stored record has
\* when the call returns, for every outcome of its table accesses.
C6_AsStated ==
    last.op = "record_failure" =>
        /\ store[last.svc] # Absent
        /\ store[last.svc].failure_count = PreCount + 1
        /\ store[last.svc].last_failure = isoformat(last.t)
        /\ last.ret = store[last.svc].state

\* C6 (amended): when the write of record_failure succeeds the stored
\* failure_count is one more than the count it read (the stored one, or 0 when
\* the read failed or nothing was stored), last_failure is the current time and
\* the returned state is the stored state; when the write fails the call returns
\* CLOSED and the stored record is left as it was.
C6_FailureCounts ==
    last.op = "record_failure" =>
        IF last.wr
        THEN /\ store[last.svc] # Absent
             /\ store[last.svc].failure_count = (IF last.rd THEN PreCount ELSE 0) + 1
             /\ store[last.svc].last_failure = isoformat(last.t)
             /\ last.ret = store[last.svc].state
        ELSE /\ last.ret = CLOSED
             /\ store[last.svc] = last.pre

C6_Witness ==
    /\ last.op = "record_failure"
    /\ last.rd /\ last.wr
    /\ last.ret = OPEN
    /\ store[last.svc].failure_count = PreCount + 1

\* C7: with every table access succeeding, threshold failures in a row from a
\* fresh record leave the record OPEN with the last failure's time; the
\* should_allow_request made more than the timeout later returns true and leaves
\* HALF_OPEN; the record_success after it leaves CLOSED with failure_count 0 and
\* should_allow_request returns true again.
C7_FullCycle ==
    \A s \in Services :
        /\ stage[s] = "opened" =>
            /\ HoldsOpen(store, s)
            /\ store[s].failure_count = CIRCUIT_BREAKER_FAILURE_THRESHOLD
            /\ store[s].last_failure = isoformat(failAt[s])
        /\ stage[s] = "probe" =>
            /\ store[s] # Absent
            /\ store[s].state = HALF_OPEN
            /\ LastIs("should_allow_request", s) => last.ret = TRUE
        /\ stage[s] = "closed" =>
            /\ store[s] # Absent
            /\ store[s].state = CLOSED
            /\ store[s].failure_count = 0
            /\ LastIs("should_allow_request", s) => last.ret = TRUE

C7_Witness ==
    \E s \in Services :
        /\ stage[s] = "closed"
        /\ LastIs("should_allow_request", s)
        /\ last.ret = TRUE

HoldsHalfOpen(st, s) == st[s] # Absent /\ st[s].state = HALF_OPEN

\* C9: every should_allow_request that checks a service while HALF_OPEN is
\* stored for it returns true and makes no put_item request, however many
\* invocations overlap and whether or not its read succeeds, and a stored state
\* stops being HALF_OPEN only by the put_item of a record_success or a
\* record_failure.
C9_HalfOpenAllowsEveryCheck ==
    /\ [](\A p \in Procs :
            (pc[p] = "idle" /\ loc[p].op = "should_allow_request"
                /\ loc[p].stored = HALF_OPEN)
            => loc[p].ret = TRUE /\ loc[p].writes = 0)
    /\ [][\A s \in Services :
            (HoldsHalfOpen(store, s) /\ ~HoldsHalfOpen(store', s))
            => \E p \in Procs :
                /\ pc[p] = "put" /\ pc'[p] = "idle"
                /\ loc[p].svc = s
                /\ loc[p].op \in {"record_success", "record_failure"}]_vars

\* Two invocations that overlapped have both checked a HALF_OPEN record and
\* were both allowed.
C9_Witness ==
    \E p \in Procs : \E q \in Procs \ {p} :
        /\ pc[p] = "idle" /\ pc[q] = "idle"
        /\ loc[p].op = "should_allow_request" /\ loc[q].op = "should_allow_request"
        /\ loc[p].stored = HALF_OPEN /\ loc[q].stored = HALF_OPEN
        /\ loc[p].ret = TRUE /\ loc[q].ret = TRUE
        /\ loc[p].overlapped
        /\ HoldsHalfOpen(store, loc[p].svc)

\* C10: with the breaker disabled should_allow_request returns true whatever is
\* stored, makes no get_item and no put_item request and leaves the table as it
\* was.
C10_DisabledAllowsAll ==
    (~enabled /\ last.op = "should_allow_request") =>
        /\ last.ret = TRUE
        /\ last.reads = 0
        /\ last.writes = 0
        /\ store[last.svc] = last.pre

C10_Witness ==
    /\ ~enabled
    /\ C4_Case
    /\ last.ret = TRUE

\* ------------------------------------------------- claims C11 .. C15
\* A record as get_circuit_state hands it out when nothing usable was read:
\* CLOSED, nothing counted, no last_failure.
IsDefaultRecord(r, name) ==
    /\ r # ValueError
    /\ r.service_name = name
    /\ r.state = CLOSED
    /\ r.failure_count = 0
    /\ r.last_failure = None

\* What get_circuit_state returned is the stored record when one was read and a
\* default record otherwise, and the table is as it was.
C11_ReturnsStoredOrDefault ==
    /\ IF last.rd /\ last.pre # Absent
       THEN last.ret = last.pre
       ELSE IsDefaultRecord(last.ret, last.svc)
    /\ last.writes = 0
    /\ store[last.svc] = last.pre

\* C11 as stated: get_circuit_state returns normally for every service_name
\* string, with the stored record when there is one and the read succeeds and a
\* default record (CLOSED, failure_count 0, no last_failure) otherwise, and it
\* never writes: a service without a record still has none after it.
C11_AsStated ==
    last.op = "get_circuit_state" =>
        /\ last.ret # ValueError
        /\ last.svc \in Services
        /\ C11_ReturnsStoredOrDefault

\* C11 (amended): get_circuit_state raises ValueError for the empty
\* service_name, without asking the table; for every other name it returns
\* normally, with the stored record when there is one and the read succeeds and
\* a default record (CLOSED, failure_count 0, no last_failure) otherwise, and it
\* never writes: a service without a record still has none after it.
C11_GetCircuitState ==
    last.op = "get_circuit_state" =>
        /\ last.ret = ValueError <=> last.svc = ""
        /\ last.svc = "" => last.reads = 0 /\ last.writes = 0
        /\ last.svc # "" => C11_ReturnsStoredOrDefault

\* get_circuit_state answered with a default record although an OPEN record is
\* stored, its read having failed.
C11_Witness ==
    /\ last.op = "get_circuit_state"
    /\ ~last.rd
    /\ PreState(OPEN)
    /\ IsDefaultRecord(last.ret, last.svc)
    /\ HoldsOpen(store, last.svc)

\* C12: a record_success, record_failure or should_allow_request one of whose
\* table accesses failed returns normally and leaves the stored record of the
\* service exactly as it was before the call.
C12_StoreErrorsAbsorbed ==
    (last.op \in Ops /\ ~(last.rd /\ last.rd2 /\ last.wr)) =>
        /\ last.ret # ValueError
        /\ store[last.svc] = last.pre

\* C13: whatever the interleaving of the invocations and whichever table
\* accesses fail, a stored record whose state is OPEN has a failure_count of at
\* least CIRCUIT_BREAKER_FAILURE_THRESHOLD.
C13_OpenMeansThreshold ==
    \A s \in Services :
        HoldsOpen(store, s)
        => store[s].failure_count >= CIRCUIT_BREAKER_FAILURE_THRESHOLD

\* An OPEN record is stored while an overlapping record_failure that read no
\* counted failure is about to overwrite it.
C13_Witness ==
    \E s \in Services : \E p \in Procs :
        /\ HoldsOpen(store, s)
        /\ pc[p] = "put"
        /\ loc[p].op = "record_failure"
        /\ loc[p].svc = s
        /\ loc[p].current_state.failure_count = 0

\* The failure_count stored for a service, 0 when it has no record.
StoredCount(st, s) == IF st[s] = Absent THEN 0 ELSE st[s].failure_count

\* C14: the stored failure_count is never negative; no call but a
\* record_success that sets it to 0 makes it smaller; and a record_failure that
\* writes leaves it strictly greater than it was before the call.
C14_CountNeverDecreases ==
    /\ \A s \in Services : StoredCount(store, s) >= 0
    /\ (last.op \in Ops \ {"record_success"})
        => StoredCount(store, last.svc) >= PreCount
    /\ last.op = "record_success"
        => \/ StoredCount(store, last.svc) = 0
           \/ StoredCount(store, last.svc) = PreCount
    /\ (last.op = "record_failure" /\ last.wr)
        => StoredCount(store, last.svc) > PreCount

\* The record_failure calls of the race that have returned.
RaceReturned == {p \in RaceProcs : pc[p] = "idle" /\ loc[p].op = "record_failure"}

\* C15: record_failure calls that overlap each read the record and later
\* overwrite it whole, so what a put_item leaves in the table is the item of the
\* call that made it, whatever was written in between; once n calls that started
\* from failure_count c have returned, with no record_success among them, the
\* stored count lies between c + 1 and c + n.
C15_LastPutWins ==
    /\ [](RaceReturned # {}
            => /\ StoredCount(store, RaceService) >= race.c + 1
               /\ StoredCount(store, RaceService) <= race.c + Cardinality(RaceReturned))
    /\ [][\A p \in RaceProcs :
            (pc[p] = "put" /\ pc'[p] = "idle")
            => store'[loc[p].svc] = loc[p].updated_state]_vars

\* As many record_failure calls as the threshold counts, all under way at the
\* same time and all returned, have left failure_count at c + 1 and the circuit
\* CLOSED.
C15_Witness ==
    /\ RaceReturned = RaceProcs
    /\ race.together
    /\ race.c = 0
    /\ StoredCount(store, RaceService) = race.c + 1
    /\ store[RaceService].state = CLOSED

\* ------------------------------------------------- claims C16 .. C20
\* The records of the list analysed whose conclusion holds 'timeout', and those
\* whose commit message holds a dependency word.
TimeoutRecords == {i \in 1 .. Len(failures) : failures[i].conclusion \in TimeoutConclusions}

DependencyRecords == {i \in 1 .. Len(failures) : failures[i].message \in DependencyMessages}

\* pattern in the list returned
Returns(pattern) == \E k \in 1 .. Len(analysis.patterns) : analysis.patterns[k] = pattern

\* C16: _analyze_failure_patterns returns 'timeout' exactly when at least two
\* records have 'timeout' in their conclusion, 'dependency' exactly when at
\* least two have a dependency word (dependency, package, npm, pip, yarn) in
\* their commit message, and 'resource' exactly when the list has at least
\* three records; each is decided without regard to the other two, and nothing
\* else is returned.
C16_PatternsByThreshold ==
    analysis.done =>
        /\ Returns("timeout") <=> Cardinality(TimeoutRecords) >= 2
        /\ Returns("dependency") <=> Cardinality(DependencyRecords) >= 2
        /\ Returns("resource") <=> Len(failures) >= 3
        /\ \A k \in 1 .. Len(analysis.patterns) :
            analysis.patterns[k] \in {"timeout", "dependency", "resource"}

\* Three records without a timeout, two of them with a dependency word: the
\* analysis returns dependency and resource, not timeout.
C16_Witness ==
    /\ analysis.done
    /\ Len(failures) = 3
    /\ Cardinality(TimeoutRecords) = 0
    /\ Cardinality(DependencyRecords) = 2
    /\ analysis.patterns = <<"dependency", "resource">>

\* The handler has left _recover_pipeline_failure with its plan.
PipelinePlanned ==
    /\ run.phase \in {"log", "done"}
    /\ run.failure_type = "pipeline_failure"

\* The recent failures whose conclusion holds 'timeout', and those whose commit
\* message holds a dependency word.
RecentTimeouts ==
    {i \in 1 .. Len(run.recent_failures) :
        run.recent_failures[i].conclusion \in TimeoutConclusions}

RecentDependencies ==
    {i \in 1 .. Len(run.recent_failures) :
        run.recent_failures[i].message \in DependencyMessages}

\* Every entry of the list is among the recovery actions of the run.
PlanIncludes(list) ==
    \A k \in 1 .. Len(list) :
        \E j \in 1 .. Len(run.recovery_actions) : run.recovery_actions[j] = list[k]

\* No entry of the list is among the recovery actions of the run.
PlanExcludes(list) ==
    \A k \in 1 .. Len(list) :
        \A j \in 1 .. Len(run.recovery_actions) : run.recovery_actions[j] # list[k]

\* pipeline_failure with three or more recent failures, two of them timeouts.
C17_Case ==
    /\ PipelinePlanned
    /\ Len(run.recent_failures) >= 3
    /\ Cardinality(RecentTimeouts) >= 2

\* C17: in that case the plan contains the minimal-recovery actions (restart
\* workflow, clear temporary caches, validate runner environment) and the
\* timeout-specific actions.
C17_PlanHasBasicAndTimeout ==
    C17_Case =>
        /\ PlanIncludes(_basic_pipeline_recovery)
        /\ PlanIncludes(_recover_timeout_issues)

\* What the plan is in that case: the notice of multiple failures, the
\* timeout-specific actions, the dependency-specific actions when two recent
\* failures have a dependency word, and the resource-specific actions, in that
\* order, and none of the minimal-recovery actions.
ComprehensivePlanAsBuilt ==
    C17_Case =>
        /\ run.recovery_actions =
            <<"Detected multiple recent failures, initiating comprehensive recovery">>
            \o _recover_timeout_issues
            \o (IF Cardinality(RecentDependencies) >= 2
                THEN _recover_dependency_issues ELSE <<>>)
            \o _recover_resource_issues
        /\ PlanExcludes(_basic_pipeline_recovery)

\* pipeline_failure with fewer than three recent failures, which show no pattern.
C18_Case ==
    /\ PipelinePlanned
    /\ Len(run.recent_failures) < 3
    /\ Cardinality(RecentTimeouts) < 2
    /\ Cardinality(RecentDependencies) < 2

\* C18 as stated: in that case the plan is exactly restart workflow, clear
\* temporary caches, validate runner environment, in that order.
C18_AsStated ==
    C18_Case => run.recovery_actions = _basic_pipeline_recovery

\* C18 (amended): for pipeline_failure with fewer than three recent failures,
\* whatever they show, the plan is the notice of a single failure followed by
\* restart workflow, clear temporary caches, validate runner environment, in
\* that order, and nothing else.
C18_MinimalPlan ==
    (PipelinePlanned /\ Len(run.recent_failures) < 3) =>
        run.recovery_actions =
            <<"Single failure detected, attempting basic recovery",
              "Restarting failed workflow",
              "Clearing temporary caches",
              "Validating runner environment">>

C18_Witness ==
    /\ C18_Case
    /\ run.phase = "done"
    /\ Len(run.recent_failures) = 1
    /\ Len(run.recovery_actions) = 4

\* The turns of the loop made so far in an external_dependency_failure run.
TurnsDone == Len(run.failing_services) - Len(run.todo)

\* The calls a turn is to make for its service, read off the action it
\* appended; <<>> when the action is none of the three.
TurnCalls(service, action) ==
    IF action = "Circuit breaker active for " \o service \o ", using fallback mechanisms"
    THEN <<Made("should_allow_request", service, "False")>>
    ELSE IF action = "Service " \o service \o " recovered, circuit breaker reset"
    THEN <<Made("should_allow_request", service, "True"),
           Made("_test_service_availability", service, "True"),
           Made("record_success", service, "None")>>
    ELSE IF action = "Service " \o service \o " still failing, circuit breaker activated"
    THEN <<Made("should_allow_request", service, "True"),
           Made("_test_service_availability", service, "False"),
           Made("record_failure", service, "None")>>
    ELSE <<>>

\* The calls of the first n turns, one turn after the other.
RECURSIVE CallsOfTurns(_)
CallsOfTurns(n) ==
    IF n = 0
    THEN <<>>
    ELSE CallsOfTurns(n - 1)
         \o TurnCalls(run.failing_services[n], run.recovery_actions[n])

\* C19: in an external_dependency_failure run the services named in the
\* context (github alone when none is named) are handled in the order given and
\* each yields exactly one action: 'using fallback', after a should_allow_request
\* that returned false and with no probe and no record_success or
\* record_failure for that service; or, after one that returned true, exactly
\* one probe followed by exactly one record_success and 'recovered' when the
\* probe succeeded, or by exactly one record_failure and 'circuit breaker
\* activated' when it failed.
C19_OneActionPerService ==
    (run.failure_type = "external_dependency_failure" /\ run.phase # "idle") =>
        /\ Len(run.recovery_actions) = TurnsDone
        /\ \A k \in 1 .. TurnsDone :
            TurnCalls(run.failing_services[k], run.recovery_actions[k]) # <<>>
        /\ run.calls = CallsOfTurns(TurnsDone)
                       \o (IF run.phase = "done"
                           THEN <<Made("put_object", "s3", "None")>> ELSE <<>>)
        /\ run.phase \in {"log", "done"} => run.todo = <<>>

\* A finished run for github named twice: the probe of the first turn failed
\* and its record_failure opened the circuit, the second turn fell back.
C19_Witness ==
    /\ run.failure_type = "external_dependency_failure"
    /\ run.phase = "done"
    /\ run.failing_services = <<"github", "github">>
    /\ run.recovery_actions =
        <<"Service github still failing, circuit breaker activated",
          "Circuit breaker active for github, using fallback mechanisms">>

\* An invocation that carried a failure type outside the five dispatched ones
\* has returned, its environment being complete and its token read.
C20_Case ==
    /\ run.phase = "done"
    /\ run.given # None
    /\ run.given[1] \notin dispatched_types
    /\ run.error # "ConfigurationError"

\* One action noting the unrecognized type, the audit write as the only call
\* on a collaborator, status 200.
C20_NotedAndCompleted ==
    /\ run.recovery_actions = <<"Unknown failure type: " \o run.given[1]>>
    /\ run.calls = <<Made("put_object", "s3", "None")>>
    /\ run.statusCode = 200

\* C20 as stated: every failure type outside the five dispatched ones,
\* manual_recovery, the 'unknown' of an unrecognized alarm or any other value
\* of a direct call, yields exactly one action noting the unrecognized type,
\* touches no collaborator but the audit write and completes with status 200.
C20_AsStated == C20_Case => C20_NotedAndCompleted

\* C20 (amended): manual_recovery and the 'unknown' of an unrecognized alarm
\* yield exactly one action noting the unrecognized type, touch no collaborator
\* but the audit write and complete with status 200; any other value of a
\* direct call outside the dispatched types is refused by validate_event_input:
\* the invocation makes no recovery action and no audit write, notifies a
\* recovery_system_failure and returns status 500.
C20_UnknownType ==
    C20_Case =>
        IF run.source = "direct" /\ run.given[1] # "manual_recovery"
        THEN /\ run.error = "ValueError"
             /\ run.statusCode = 500
             /\ run.recovery_actions = <<>>
             /\ run.calls = <<>>
             /\ run.notified = <<[failure_type |-> "recovery_system_failure",
                                  success |-> FALSE]>>
        ELSE /\ C20_NotedAndCompleted
             /\ run.notified = <<[failure_type |-> run.given[1], success |-> TRUE]>>

\* An alarm no failure type is known for has been handled.
C20_Witness ==
    /\ C20_Case
    /\ run.source = "alarm"
    /\ run.given = <<"unknown">>
    /\ C20_NotedAndCompleted

\* ------------------------------------------------------------ claims C21 .. C26
\* A recovery of the steps above has run to its end.
StepsRan(failure_type) ==
    run.failure_type = failure_type /\ run.phase \in {"log", "done"}

\* A call on the store failed during the cleanup; a read or an update of a
\* function's configuration failed during the scaling.
CleanupCallFailed == StepsRan("resource_exhaustion") /\ run.s3_fail # 0

ScalingCallFailed ==
    /\ StepsRan("performance_regression")
    /\ \/ \E k \in 1 .. Len(run.configs) : run.configs[k].kind = "ClientError"
       \/ \E k \in 1 .. Len(run.updates) : ~run.updates[k].applied

\* Some action tells of a failure.
FailureRecorded ==
    \E k \in 1 .. Len(run.recovery_actions) :
        Contains(lower(run.recovery_actions[k]), "fail")

\* The steps after the cleanup and after the scaling were taken, and every
\* listed function was asked for its configuration.
LaterStepsRan ==
    /\ (StepsRan("resource_exhaustion") /\ "dynamodb_throttling" \in run.context_keys)
        => run.recovery_actions[Len(run.recovery_actions)]
               = "Temporarily increasing DynamoDB capacity"
    /\ StepsRan("performance_regression")
        => /\ SubSeq(run.recovery_actions, Len(run.recovery_actions) - 1,
                     Len(run.recovery_actions))
                = <<"Clearing CloudWatch metrics cache",
                    "Triggering performance baseline recalculation">>
           /\ \A k \in 1 .. Len(functions) :
                \E c \in 1 .. Len(run.calls) :
                    /\ run.calls[c].op = "get_function_configuration"
                    /\ run.calls[c].svc = func_name(functions[k])

\* The descriptions of the batches deleted before the failing call are those
\* of the same cleanup without a failure.
EarlierDescriptionsKept ==
    CleanupCallFailed =>
        \A k \in 1 .. Len(run.deletes) :
            \E j \in 1 .. Len(run.recovery_actions) :
                run.recovery_actions[j]
                    = _cleanup_old_s3_data(run.listing, 0).actions[k]

\* C21: a failure of a recovery step's collaborator call (listing or deletion
\* during the cleanup, configuration read or update during the scaling) is
\* recorded as an action description and does not stop the later steps: the
\* plan runs every remaining step, keeps the descriptions produced before the
\* failure and returns normally.
C21_FailureRecordedStepsGoOn ==
    (CleanupCallFailed \/ ScalingCallFailed) =>
        /\ FailureRecorded
        /\ LaterStepsRan
        /\ EarlierDescriptionsKept
        /\ run.error = ""

\* What the steps do after a failed call: a failed call of the cleanup is
\* recorded, a failed call of the scaling is not; in both cases the later
\* steps are taken, the earlier descriptions are kept and the plan returns.
StepFailuresAsBuilt ==
    /\ CleanupCallFailed =>
        /\ FailureRecorded
        /\ LaterStepsRan
        /\ EarlierDescriptionsKept
        /\ run.error = ""
    /\ ScalingCallFailed =>
        /\ ~FailureRecorded
        /\ LaterStepsRan
        /\ run.error = ""

\* The keys handed to delete_objects, call after call.
RECURSIVE Flatten(_)
Flatten(batches) ==
    IF batches = <<>> THEN <<>> ELSE Head(batches) \o Flatten(Tail(batches))

\* The objects of the listing, page after page.
ListedObjects == Flatten(run.listing)

\* A cleanup has run without an error of the store.
CleanupRan ==
    /\ StepsRan("resource_exhaustion")
    /\ "storage_full" \in run.context_keys
    /\ run.s3_fail = 0

\* The actions the cleanup returned, cut out of the actions of the recovery.
CleanupActions ==
    LET from == IF "lambda_throttling" \in run.context_keys THEN 3 ELSE 2
        upto == Len(run.recovery_actions)
                - (IF "dynamodb_throttling" \in run.context_keys THEN 1 ELSE 0)
    IN  SubSeq(run.recovery_actions, from, upto)

\* The keys deleted are those of the objects in aged, each handed over once.
DeletesExactly(aged) ==
    LET keys == Flatten(run.deletes)
    IN  /\ \A i, j \in 1 .. Len(keys) : keys[i] = keys[j] => i = j
        /\ {keys[i] : i \in 1 .. Len(keys)} = {[Key |-> o.Key] : o \in aged}

\* Every delete call carries from one key to the limit, and the k-th action
\* gives the number of keys of the k-th call.
BatchesBoundedAndDescribed ==
    /\ \A k \in 1 .. Len(run.deletes) :
        /\ Len(run.deletes[k]) >= 1
        /\ Len(run.deletes[k]) <= DeleteBatchLimit
    /\ Len(CleanupActions) = Len(run.deletes)
    /\ \A k \in 1 .. Len(run.deletes) :
        CleanupActions[k] \in
            {"Deleted " \o t \o " of " \o ToString(Len(run.deletes[k]))
             \o " old objects" : t \in {"batch", "final batch"}}

\* C22 as stated: for any listing spread over any number of pages, and with no
\* store error, the cleanup deletes exactly the objects whose age is at least
\* the cutoff and no younger object, each exactly once; every delete call
\* carries at least one key and at most the limit; one action per delete call
\* gives that call's key count.
C22_AsStated ==
    CleanupRan =>
        /\ DeletesExactly({ListedObjects[i] : i \in
                            {j \in 1 .. Len(ListedObjects) :
                                ListedObjects[j].age >= days_old}})
        /\ BatchesBoundedAndDescribed

\* C22 (amended): for any listing spread over any number of pages, and with no
\* store error, the cleanup deletes exactly the objects older than the cutoff
\* (an object exactly as old as the cutoff is kept, like every younger one),
\* each exactly once; every delete call carries at least one key and at most
\* the limit; one action per delete call gives that call's key count.
C22_DeletesOlderThanCutoff ==
    CleanupRan =>
        /\ DeletesExactly({ListedObjects[i] : i \in
                            {j \in 1 .. Len(ListedObjects) :
                                ListedObjects[j].age > days_old}})
        /\ BatchesBoundedAndDescribed

\* A listing of two pages has been cleaned in two calls, a full batch from the
\* first page and a final batch from the second, and an object as old as the
\* cutoff was left in the store.
C22_Witness ==
    /\ CleanupRan
    /\ Len(run.listing) = 2
    /\ Len(run.deletes) = 2
    /\ Len(run.deletes[1]) = DeleteBatchLimit
    /\ run.deletes[2] = <<[Key |-> <<2, 1>>]>>
    /\ \E i \in 1 .. Len(ListedObjects) : ListedObjects[i].age = days_old

\* round(current * 1.5) as Python rounds: a half goes to the even neighbour.
round_scaled(current_memory) ==
    LET product == current_memory * 3
        whole == product \div 2
    IN  IF product % 2 = 0 \/ whole % 2 = 0 THEN whole ELSE whole + 1

\* The updates asked for the k-th function, and the actions that name it.
UpdatesOf(k) ==
    SelectSeq(run.updates, LAMBDA u : u.FunctionName = func_name(functions[k]))

ActionsNaming(k) ==
    SelectSeq(run.recovery_actions,
              LAMBDA a : Contains(a, "Scaled " \o func_name(functions[k]) \o " "))

\* C23: for each of the fixed named functions whose configuration was read,
\* the scaling computes new = min(3008, round(current * 1.5)) from the current
\* memory, calls the configuration update iff new differs from current, and
\* returns a description of the change exactly when it applied one; the value
\* it sets never exceeds 3008 and is never below the current value.
C23_ScalesByRoundedFactor ==
    StepsRan("performance_regression") =>
        \A k \in 1 .. Len(functions) :
            run.configs[k].kind = "ok" =>
                LET current == run.configs[k].MemorySize
                    new == Min(3008, round_scaled(current))
                IN  /\ Len(UpdatesOf(k)) = (IF new # current THEN 1 ELSE 0)
                    /\ \A i \in 1 .. Len(UpdatesOf(k)) :
                        /\ UpdatesOf(k)[i].MemorySize = new
                        /\ UpdatesOf(k)[i].MemorySize <= 3008
                        /\ UpdatesOf(k)[i].MemorySize >= current
                    /\ Len(ActionsNaming(k))
                        = Len(SelectSeq(UpdatesOf(k), LAMBDA u : u.applied))

\* What the scaling does: the product is cut to its whole part, and a
\* function found above the cap is set down to it.
ScalingAsBuilt ==
    StepsRan("performance_regression") =>
        \A k \in 1 .. Len(functions) :
            run.configs[k].kind = "ok" =>
                LET current == run.configs[k].MemorySize
                    new == Min(3008, (current * 3) \div 2)
                IN  /\ Len(UpdatesOf(k)) = (IF new # current THEN 1 ELSE 0)
                    /\ \A i \in 1 .. Len(UpdatesOf(k)) :
                        /\ UpdatesOf(k)[i].MemorySize = new
                        /\ UpdatesOf(k)[i].MemorySize <= 3008
                        /\ current <= 3008 => UpdatesOf(k)[i].MemorySize >= current
                    /\ Len(ActionsNaming(k))
                        = Len(SelectSeq(UpdatesOf(k), LAMBDA u : u.applied))

\* The actions that carry the marker 'failed', whatever the case of its letters.
FailureMarked ==
    {"S3 cleanup failed: ClientError", "Restarting failed workflow"}

\* C24: the handler's success flag is true iff the returned action list is
\* non-empty and no action carries the marker 'failed'; the notification is
\* published with severity INFO iff the flag is true; an invocation that took
\* no action at all is reported as not successful although it returns status
\* 200.
C24_SuccessFlag ==
    (run.phase = "done" /\ run.error = "") =>
        LET success == run.notified[1].success
        IN  /\ success <=>
                /\ run.recovery_actions # <<>>
                /\ \A k \in 1 .. Len(run.recovery_actions) :
                    run.recovery_actions[k] \notin FailureMarked
            /\ run.published[1].severity = "INFO" <=> success
            /\ run.published[1].severity \in {"INFO", "ERROR"}
            /\ run.statusCode = 200

\* A resource_exhaustion whose context holds none of the three keys has
\* returned: no action, status 200, reported as failed with severity ERROR.
C24_Witness ==
    /\ run.phase = "done"
    /\ run.failure_type = "resource_exhaustion"
    /\ run.context_keys = {}
    /\ run.recovery_actions = <<>>
    /\ run.statusCode = 200
    /\ ~run.notified[1].success
    /\ run.published[1].severity = "ERROR"

\* C25: when a required setting is missing or the credential cannot be
\* retrieved (ConfigurationError), the handler executes no recovery action,
\* reads and writes no circuit state, attempts exactly one notification, of
\* the failure, and returns status 500; nothing is tried again.
C25_ConfigurationErrorEnds ==
    /\ [](run.error = "ConfigurationError" =>
            /\ run.phase = "done"
            /\ run.recovery_actions = <<>>
            /\ run.calls = <<>>
            /\ Len(run.published) = 1
            /\ run.published[1].failure_type = "recovery_system_failure"
            /\ run.published[1].severity = "ERROR"
            /\ run.notified = <<[failure_type |-> "recovery_system_failure",
                                 success |-> FALSE]>>
            /\ run.statusCode = 500)
    /\ [][(run'.error = "ConfigurationError" /\ run' # run) => store' = store]_vars

\* An invocation has ended in ConfigurationError while the circuit of github
\* stood open.
C25_Witness ==
    /\ run.error = "ConfigurationError"
    /\ run.phase = "done"
    /\ store["github"] # Absent
    /\ store["github"].state = OPEN

\* C26: every invocation of the handler, whatever its outcome, attempts
\* exactly one publish before it returns and none before that; whether or not
\* the publish is delivered the handler returns, with 200 after a recovery
\* that ran to its end and 500 after any error.
C26_OnePublishPerInvocation ==
    /\ run.phase = "done" =>
        /\ Len(run.published) = 1
        /\ run.statusCode = (IF run.error = "" THEN 200 ELSE 500)
        /\ run.error \in {"", "ConfigurationError", "ValueError",
                          "UnboundLocalError", "RecoveryError"}
    /\ run.phase # "done" =>
        /\ run.published = <<>>
        /\ run.statusCode = 0

\* A recovery ran to its end, the publish of its notification failed and the
\* handler returned status 200.
C26_Witness ==
    /\ run.phase = "done"
    /\ run.error = ""
    /\ run.recovery_actions # <<>>
    /\ ~run.published[1].delivered
    /\ run.statusCode = 200

\* An execution of the plan that ended in RecoveryError was notified and
\* answered with status 500.
C26_RecoveryErrorNotified ==
    /\ run.phase = "done"
    /\ run.error = "RecoveryError"
    /\ Len(run.published) = 1
    /\ run.statusCode = 500

\* ------------------------------------------------------------ claims C27 .. C30
\* The invocation whose put_item is the step taken, if the step is one.
Puts(p, op) == pc[p] = "put" /\ pc'[p] = "idle" /\ loc[p].op = op

HoldsClosed(st, s) == st[s] # Absent /\ st[s].state = CLOSED

\* C27: no record_failure and no should_allow_request ever changes a stored
\* record from OPEN or HALF_OPEN to CLOSED, under any interleaving of the
\* invocations and any read errors of the store: a step that does so is the
\* put_item of a record_success.
C27_ClosedOnlyBySuccess ==
    [][\A s \in Services :
        ((HoldsOpen(store, s) \/ HoldsHalfOpen(store, s)) /\ HoldsClosed(store', s))
            => \E p \in Procs : Puts(p, "record_success")]_vars

\* The last call was a get_circuit_state or a should_allow_request and named
\* a service of the table.
ReadOnlyCall ==
    /\ last.op \in {"get_circuit_state", "should_allow_request"}
    /\ last.svc \in Services

\* No call leaves the table without a record that was there before it.
NeverDeletes ==
    (last.svc \in Services /\ last.pre # Absent) => store[last.svc] # Absent

\* C28 as stated: the stored record changes only inside record_success and
\* record_failure: get_circuit_state and should_allow_request never write to
\* the store in any state, and no operation ever deletes a record.
C28_AsStated ==
    /\ ReadOnlyCall => (last.writes = 0 /\ store[last.svc] = last.pre)
    /\ NeverDeletes

\* C28 (amended): the stored record changes only inside record_success,
\* record_failure and the transition of should_allow_request:
\* get_circuit_state never writes in any state; should_allow_request makes
\* no write and leaves the record as it was unless it read an OPEN record whose
\* timeout had passed, and what it stores then is a HALF_OPEN record; no
\* operation ever deletes a record.
C28_WritesOnlyInTransition ==
    /\ (ReadOnlyCall /\ last.op = "get_circuit_state")
        => (last.writes = 0 /\ store[last.svc] = last.pre)
    /\ (ReadOnlyCall /\ last.op = "should_allow_request")
        => IF last.writes = 0
           THEN store[last.svc] = last.pre
           ELSE /\ last.writes = 1
                /\ last.rd
                /\ PreState(OPEN)
                /\ last.pre.last_failure # None
                /\ SinceStoredFailure > CIRCUIT_BREAKER_TIMEOUT
                /\ store[last.svc] = last.pre \/ HoldsHalfOpen(store, last.svc)
    /\ NeverDeletes

\* A should_allow_request has returned after changing the stored record.
C28_Witness ==
    /\ last.op = "should_allow_request"
    /\ last.writes = 1
    /\ store[last.svc] # last.pre

\* C29: the stored state becomes HALF_OPEN only from OPEN and only through
\* should_allow_request: HALF_OPEN is never written over a record that is
\* CLOSED (or missing) at the time of the write, so every HALF_OPEN record has
\* failure_count >= threshold, in every interleaving of overlapping
\* invocations and under read errors of the store.
C29_HalfOpenOnlyOverOpen ==
    /\ [](\A s \in Services :
            HoldsHalfOpen(store, s)
                => store[s].failure_count >= CIRCUIT_BREAKER_FAILURE_THRESHOLD)
    /\ [][\A s \in Services :
            (~HoldsHalfOpen(store, s) /\ HoldsHalfOpen(store', s))
                => /\ HoldsOpen(store, s)
                   /\ \E p \in Procs : Puts(p, "should_allow_request")]_vars

\* C30: when should_allow_request('github') returns false,
\* _get_recent_workflow_failures sends no request to the hosting API, calls
\* neither record_success nor record_failure, leaves the circuit record as it
\* is and returns no failure, so that the pipeline_failure recovery goes on
\* with the minimal plan.
C30_DeniedFetchIsSilent ==
    [][(/\ run.phase = "recover"
        /\ run.failure_type = "pipeline_failure"
        /\ run'.phase = "log"
        /\ Head(run'.calls) = Made("should_allow_request", "github", "False"))
        => /\ Len(run'.calls) = 1
           /\ store' = store
           /\ run'.recent_failures = <<>>
           /\ run'.recovery_actions =
                <<"Single failure detected, attempting basic recovery",
                  "Restarting failed workflow",
                  "Clearing temporary caches",
                  "Validating runner environment">>]_vars

\* A pipeline_failure recovery found the circuit of github open and went on
\* with the minimal plan.
C30_Witness ==
    /\ run.failure_type = "pipeline_failure"
    /\ run.phase = "log"
    /\ run.calls = <<Made("should_allow_request", "github", "False")>>
    /\ HoldsOpen(store, "github")
    /\ Len(run.recovery_actions) = 4

\* ------------------------------------------------- claims C31 .. C40
\* The calls of the run on the breaker of github and on the hosting API.
GithubCalls == SelectSeq(run.calls, LAMBDA c : c.svc = "github")

ComprehensivePlan ==
    /\ run.recovery_actions # <<>>
    /\ Head(run.recovery_actions) =
        "Detected multiple recent failures, initiating comprehensive recovery"

\* C32: for pipeline_failure the comprehensive plan is produced iff there are
\* 3 or more recent failures; in it the remediation block of a pattern appears
\* iff the pattern was detected, the blocks come in the order timeout,
\* dependency, resource, and the resource remediation is in every
\* comprehensive plan; the minimal plan holds no pattern remediation.
C32_PlanFollowsPatterns ==
    PipelinePlanned =>
        /\ ComprehensivePlan <=> Len(run.recent_failures) >= 3
        /\ ComprehensivePlan
            => /\ Tail(run.recovery_actions) =
                    (IF Cardinality(RecentTimeouts) >= 2
                     THEN _recover_timeout_issues ELSE <<>>)
                    \o (IF Cardinality(RecentDependencies) >= 2
                        THEN _recover_dependency_issues ELSE <<>>)
                    \o _recover_resource_issues
               /\ PlanIncludes(_recover_resource_issues)
        /\ ~ComprehensivePlan
            => /\ PlanExcludes(_recover_timeout_issues)
               /\ PlanExcludes(_recover_dependency_issues)
               /\ PlanExcludes(_recover_resource_issues)

\* Three recent failures, two of them timeouts that came with dependency
\* changes: the plan is the notice, then the timeout block, the dependency
\* block and the resource block.
C32_Witness ==
    /\ PipelinePlanned
    /\ run.phase = "done"
    /\ Len(run.recent_failures) = 3
    /\ Cardinality(RecentTimeouts) = 2
    /\ Cardinality(RecentDependencies) >= 2
    /\ Len(run.recovery_actions) = 10
    /\ run.recovery_actions[2] = _recover_timeout_issues[1]
    /\ run.recovery_actions[5] = _recover_dependency_issues[1]
    /\ run.recovery_actions[8] = _recover_resource_issues[1]

\* The handler returned normally from execute_recovery_plan.
ReturnedNormally == run.phase = "done" /\ run.error = ""

\* The writes of the audit log among the calls of the run.
AuditWrites == {i \in 1 .. Len(run.calls) : run.calls[i].op = "put_object"}

\* C33: each execute_recovery_plan that returns normally attempts exactly one
\* audit write, after all steps of the plan have run; the action list of the
\* entry is the list returned to the caller and its success flag is the overall
\* success of the invocation; a failed write does not change the list returned.
C33_AuditMatchesOutcome ==
    ReturnedNormally =>
        /\ AuditWrites = {Len(run.calls)}
        /\ Len(run.audit) = 1
        /\ run.audit[1].recovery_actions = run.recovery_actions
        /\ run.audit[1].success = run.notified[1].success

\* What the code does: the entry is written once, last, with the list returned,
\* whether or not the write goes through, and its success flag is always true.
AuditAsBuilt ==
    ReturnedNormally =>
        /\ AuditWrites = {Len(run.calls)}
        /\ Len(run.audit) = 1
        /\ run.audit[1].recovery_actions = run.recovery_actions
        /\ run.audit[1].success

\* A call of the run raised an exception that no recovery step handles.
StepRaised == \E i \in 1 .. Len(run.calls) : run.calls[i].ret = "ValueError"

\* C34: an unexpected exception in a step of execute_recovery_plan surfaces as
\* RecoveryError: the handler returns status 500 and attempts a failure
\* notification, no audit entry is written for the invocation, the remaining
\* steps are not run, and what the earlier steps changed stays as they left it.
C34_RecoveryErrorEndsRun ==
    /\ [](StepRaised =>
            /\ run.phase = "done"
            /\ run.error = "RecoveryError"
            /\ run.statusCode = 500
            /\ Len(run.published) = 1
            /\ run.published[1].failure_type = "recovery_system_failure"
            /\ run.published[1].severity = "ERROR"
            /\ run.audit = <<>>
            /\ AuditWrites = {}
            /\ run.calls[Len(run.calls)].ret = "ValueError"
            /\ run.todo # <<>>
            /\ Head(run.todo) = ""
            /\ Cardinality({i \in 1 .. Len(run.calls) :
                                run.calls[i].op = "should_allow_request"})
                    = Len(run.failing_services) - Len(run.todo) + 1
            /\ \A i \in 1 .. Len(run.calls) - 1 : run.calls[i].ret # "ValueError")
    /\ [][(StepRaised' /\ ~StepRaised) => store' = store]_vars

\* The turn for github recorded a failure, the next turn raised, and the
\* handler answered 500 with the record of github as that turn left it and
\* the turn after the raising one not made.
C34_Witness ==
    /\ StepRaised
    /\ run.error = "RecoveryError"
    /\ Len(run.calls) = 4
    /\ run.calls[3] = Made("record_failure", "github", "None")
    /\ store["github"] # Absent
    /\ store["github"].failure_count >= 1

\* The invocation got past validate_environment, validate_event_input and
\* get_github_token.
PassedValidation ==
    /\ run.phase = "done"
    /\ run.error \notin {"ConfigurationError", "ValueError"}

\* C37: every event that passes validation is classified into a failure type
\* and recovered: an alarm envelope has one plan executed for each alarm
\* record it holds (pipeline_failure, performance_regression or unknown, by
\* the alarm name), a direct call exactly one (manual_recovery when no
\* failure_type is given), and the handler returns status 200 with the
\* actions taken.
C37_ValidatedEventsRecovered ==
    PassedValidation =>
        /\ run.statusCode = 200
        /\ run.error = ""
        /\ run.source = "alarm"
            => /\ Len(run.audit) = (IF run.given = None THEN 0 ELSE 1)
               /\ run.given # None
                    => /\ run.failure_type = run.given[1]
                       /\ run.failure_type \in {"pipeline_failure",
                                                "performance_regression", "unknown"}
        /\ run.source = "direct"
            => /\ Len(run.audit) = 1
               /\ run.failure_type = (IF run.given = None
                                      THEN "manual_recovery" ELSE run.given[1])

\* What the code does: an envelope without records ends in status 500, and so
\* does a plan that raised; every other validated event has one plan executed
\* and returns 200.
ValidatedEventsAsBuilt ==
    PassedValidation =>
        IF run.source = "alarm" /\ run.given = None
        THEN /\ run.error = "UnboundLocalError"
             /\ run.statusCode = 500
             /\ run.audit = <<>>
        ELSE IF run.error = "RecoveryError"
        THEN run.statusCode = 500 /\ run.audit = <<>>
        ELSE /\ run.error = ""
             /\ run.statusCode = 200
             /\ Len(run.audit) = 1
             /\ run.failure_type = (IF run.given = None
                                    THEN "manual_recovery" ELSE run.given[1])

\* No call of the run on a collaborator failed: every request to the hosting
\* API was answered with status 200, every probe found its service available,
\* no store call of the cleanup and no call of the scaling raised.
NoCollaboratorError ==
    /\ \A i \in 1 .. Len(run.calls) :
        /\ run.calls[i].ret \notin {"status", "RequestException", "ClientError",
                                    "ResourceNotFoundException", "ValueError"}
        /\ run.calls[i].op = "_test_service_availability" => run.calls[i].ret = "True"
    /\ run.s3_fail = 0

\* C38: if every recovery step of an invocation completes without any
\* collaborator error and at least one action is taken, the handler reports
\* success = true and notifies with severity INFO, for every failure type and
\* every plan, the minimal plan of a pipeline_failure included.
C38_CleanRunReportsSuccess ==
    (ReturnedNormally /\ NoCollaboratorError /\ run.recovery_actions # <<>>)
        => /\ run.notified[1].success
           /\ run.published[1].severity = "INFO"

\* The record a completed record_success leaves in the table: nothing else
\* stores CLOSED with failure_count 0.
HoldsSuccess(st, s) ==
    /\ HoldsClosed(st, s)
    /\ st[s].failure_count = 0

\* C39 as stated: once the write of a record_success is in the store, the
\* stored state next becomes OPEN only through record_failure calls that read
\* the record after that write; a record_failure that read before the success
\* and writes after it does not re-open the circuit with the count it read.
C39_AsStated ==
    [][\A p \in Procs :
        (Puts(p, "record_failure")
            /\ HoldsSuccess(store, loc[p].svc)
            /\ HoldsOpen(store', loc[p].svc))
            => loc[p].current_state.failure_count = store[loc[p].svc].failure_count]_vars

\* C39 (amended): the put_item of a record_failure is unconditional and stores
\* the item computed from the record the call read: the stored count becomes
\* the count read plus one and the state OPEN iff that count reaches the
\* threshold, whatever was written in between; so a record_failure that read
\* before a record_success and writes after it replaces the success and
\* re-opens the circuit when the count it read was one short of the threshold,
\* while one that read the record left by the success stores count 1.
C39_LastWriteWins ==
    [][\A p \in Procs :
        (Puts(p, "record_failure") /\ store' # store)
            => LET s == loc[p].svc
                   read == loc[p].current_state
               IN  /\ store' = [store EXCEPT ![s] = store'[s]]
                   /\ store'[s].failure_count = read.failure_count + 1
                   /\ HoldsOpen(store', s)
                        <=> read.failure_count + 1 >= CIRCUIT_BREAKER_FAILURE_THRESHOLD
                   /\ ~HoldsOpen(store', s) => HoldsClosed(store', s)
                   /\ store'[s].last_success = read.last_success
                   /\ (HoldsSuccess(store, s)
                        /\ read.failure_count = store[s].failure_count)
                        => store'[s].failure_count = 1]_vars

\* A record_failure read a count one short of the threshold, a record_success
\* that overlapped it has returned and its record is in the store, and the
\* record_failure is about to write OPEN over it.
C39_Witness ==
    \E p, q \in Procs :
        /\ pc[p] = "put"
        /\ loc[p].op = "record_failure"
        /\ loc[p].current_state.failure_count + 1 = CIRCUIT_BREAKER_FAILURE_THRESHOLD
        /\ loc[p].updated_state.state = OPEN
        /\ pc[q] = "idle"
        /\ loc[q].op = "record_success"
        /\ loc[q].svc = loc[p].svc
        /\ loc[q].writes = 1
        /\ loc[q].overlapped
        /\ HoldsSuccess(store, loc[p].svc)

\* ------------------------------------------------- retry_with_backoff
\* The defaults of retry_with_backoff.
max_retries_default == 3

base_delay_default == 1

\* The arguments the calls are made with: the defaults, as the handler of the
\* collector calls it, and values around them.
RetryCounts == 0 .. max_retries_default + 1

RetryDelays == {base_delay_default, 2, 3}

\* What one call of func ends in: a result, one of the two errors that are
\* retried, or an error of another class.
FuncOutcomes == {"ok", "ClientError", "GitHubAPIError", "ValueError"}

Retried == {"ClientError", "GitHubAPIError"}

\* The delay that keeps the base whatever the attempt.
backoff_delay_flat(base_delay, attempt) == base_delay

\* delay = base_delay * (2 ** attempt)
backoff_delay(base_delay, attempt) == base_delay * 2 ^ attempt

\* retry_with_backoff is called: range(max_retries) is empty for a count of 0,
\* and the call returns None at once.
RetryCall ==
    /\ retry.state # "loop"
    /\ \E max_retries \in RetryCounts, base_delay \in RetryDelays :
        retry' = [NoRetry EXCEPT
                    !.state = IF max_retries = 0 THEN "returned" ELSE "loop",
                    !.max_retries = max_retries,
                    !.base_delay = base_delay]
    /\ UNCHANGED <<enabled, store, now, seqvars, procvars, race, failures, analysis,
                   run, circuit_breaker_state, fetch, live>>

\* One turn of the loop: func is called; its result is returned, an error of
\* the two retried classes is raised again on the last attempt and slept on
\* before it, any other error leaves the loop at once.
RetryAttempt ==
    /\ retry.state = "loop"
    /\ \E outcome \in FuncOutcomes :
        retry' =
            IF outcome = "ok"
            THEN [retry EXCEPT !.state = "returned",
                               !.outcomes = Append(@, outcome)]
            ELSE IF outcome \notin Retried
            THEN [retry EXCEPT !.state = "propagated",
                               !.outcomes = Append(@, outcome)]
            ELSE IF retry.attempt = retry.max_retries - 1
            THEN [retry EXCEPT !.state = "raised",
                               !.outcomes = Append(@, outcome)]
            ELSE [retry EXCEPT
                    !.outcomes = Append(@, outcome),
                    !.slept = Append(@, backoff_delay(retry.base_delay, retry.attempt)),
                    !.attempt = @ + 1]
    /\ UNCHANGED <<enabled, store, now, seqvars, procvars, race, failures, analysis,
                   run, circuit_breaker_state, fetch, live>>

RetryNext == RetryCall \/ RetryAttempt

\* func and time.sleep return: a call under way takes its next turn.
RetrySpec == Init /\ [][RetryNext]_vars /\ WF_vars(RetryAttempt)

\* The calls of func that failed with an error of the retried classes.
RetriedCalls == {k \in 1 .. Len(retry.outcomes) : retry.outcomes[k] \in Retried}

\* C35: retry_with_backoff always terminates: it calls func at most
\* max_retries times, returns the first successful result without further
\* calls, waits base_delay * 2^k after the (k+1)-th failed attempt, each delay
\* being double the one before, does not wait after the last attempt but
\* raises its error again, and lets an error that is neither a store nor an
\* API error propagate at once, without retry.
C35_RetryTerminates ==
    /\ [](/\ Len(retry.outcomes) <= retry.max_retries
          /\ \A k \in 1 .. Len(retry.outcomes) - 1 : retry.outcomes[k] \in Retried
          /\ retry.state = "loop"
                => /\ RetriedCalls = 1 .. Len(retry.outcomes)
                   /\ Len(retry.slept) = Len(retry.outcomes)
          /\ retry.state = "returned"
                => IF retry.max_retries = 0
                   THEN retry.outcomes = <<>> /\ retry.slept = <<>>
                   ELSE /\ retry.outcomes[Len(retry.outcomes)] = "ok"
                        /\ Len(retry.slept) = Len(retry.outcomes) - 1
          /\ retry.state = "raised"
                => /\ Len(retry.outcomes) = retry.max_retries
                   /\ retry.outcomes[Len(retry.outcomes)] \in Retried
                   /\ Len(retry.slept) = retry.max_retries - 1
          /\ retry.state = "propagated"
                => /\ retry.outcomes[Len(retry.outcomes)] \notin Retried \cup {"ok"}
                   /\ Len(retry.slept) = Len(retry.outcomes) - 1
          /\ \A k \in 1 .. Len(retry.slept) :
                /\ retry.slept[k] = retry.base_delay * 2 ^ (k - 1)
                /\ k > 1 => retry.slept[k] = 2 * retry.slept[k - 1])
    /\ (retry.state = "loop") ~> (retry.state \in {"returned", "raised", "propagated"})

\* A call with the default count failed three times with retried errors: it
\* slept twice, the second time twice as long, and raised the third error.
C35_Witness ==
    /\ retry.state = "raised"
    /\ retry.max_retries = max_retries_default
    /\ Len(retry.outcomes) = 3
    /\ Len(retry.slept) = 2
    /\ retry.slept[2] = 2 * retry.slept[1]

\* ------------------------------------------------- recovery of a circuit
\* The calls on the breaker of a service as the recovery steps make them, one
\* after the other: should_allow_request, then, if it allowed the request, the
\* probe and record_success or record_failure.  In the mode "any" the probes
\* may fail, failures may be recorded and the store may fail; from the moment
\* the mode turns to "heal" the store answers and every probe succeeds.
\* Latest instant of a record_failure call: the clock goes on far enough after
\* it for the timeout of the record it wrote to pass.
LastFailureBy == 1

LiveMaxTime == LastFailureBy + CIRCUIT_BREAKER_TIMEOUT + 1

LiveTick ==
    /\ now < LiveMaxTime
    /\ now' = now + 1
    /\ UNCHANGED <<enabled, store, seqvars, procvars, xvars>>

\* The dependency stops failing and the store stops failing.
LiveHeal ==
    /\ live.mode = "any"
    /\ live' = [live EXCEPT !.mode = "heal"]
    /\ UNCHANGED <<enabled, store, now, seqvars, procvars, race, failures, analysis,
                   run, retry, circuit_breaker_state, fetch>>

\* should_allow_request(s); when it returns true the probe is made next.
LiveCheck(s) ==
    /\ ~live.probing
    /\ \E rd, rd2, wr \in BOOLEAN :
        LET a == should_allow_request(enabled, store, s, now, rd, rd2, wr)
        IN  /\ live.mode = "heal" => rd /\ rd2 /\ wr
            /\ a.reads < 2 => rd2
            /\ a.writes < 1 => wr
            /\ store' = a.store
            /\ live' = [live EXCEPT
                          !.probing = a.ret,
                          !.denied = @ \/ (live.mode = "heal" /\ ~a.ret)]
    /\ UNCHANGED <<enabled, now, seqvars, procvars, race, failures, analysis,
                   run, retry, circuit_breaker_state, fetch>>

\* The probe that was allowed succeeds and record_success(s) follows.
LiveProbeOk(s) ==
    /\ live.probing
    /\ \E rd, wr \in BOOLEAN :
        /\ live.mode = "heal" => rd /\ wr
        /\ store' = record_success(store, s, now, rd, wr).store
    /\ live' = [live EXCEPT !.probing = FALSE]
    /\ UNCHANGED <<enabled, now, seqvars, procvars, race, failures, analysis,
                   run, retry, circuit_breaker_state, fetch>>

\* The probe that was allowed fails and record_failure(s) follows.
LiveProbeFail(s) ==
    /\ live.probing
    /\ live.mode = "any"
    /\ now <= LastFailureBy
    /\ \E rd, wr \in BOOLEAN :
        /\ get_circuit_state(store, s, now, rd).failure_count + 1 <= MaxCount
        /\ store' = record_failure(store, s, now, rd, wr).store
    /\ live' = [live EXCEPT !.probing = FALSE]
    /\ UNCHANGED <<enabled, now, seqvars, procvars, race, failures, analysis,
                   run, retry, circuit_breaker_state, fetch>>

LiveNext ==
    \/ LiveTick
    \/ LiveHeal
    \/ \E s \in Services : LiveCheck(s)
    \/ \E s \in Services : LiveProbeOk(s)
    \/ \E s \in Services : LiveProbeFail(s)

\* Time keeps advancing, should_allow_request keeps being checked, and a probe
\* that was allowed is followed by its record call.
LiveSpec ==
    /\ Init
    /\ [][LiveNext]_vars
    /\ WF_vars(LiveTick)
    /\ \A s \in Services :
        /\ WF_vars(LiveCheck(s))
        /\ WF_vars(LiveProbeOk(s))

\* C36: no reachable circuit state denies requests forever: from every
\* reachable state of a service, if time keeps advancing, should_allow_request
\* keeps being checked and every probe it permits succeeds and is followed by
\* record_success, the circuit eventually reaches CLOSED with failure_count 0.
C36_EventuallyClosed ==
    \A s \in Services :
        (live.mode = "heal") ~> (live.mode = "heal" /\ HoldsSuccess(store, s))

\* Since the probes stopped failing a request was denied by the open circuit,
\* and the circuit has closed with failure_count 0 after that.
C36_Witness ==
    /\ live.mode = "heal"
    /\ live.denied
    /\ \A s \in Services : HoldsSuccess(store, s)

\* ------------------------------------------------- the collector's breaker
\* The breaker of the metrics collector opens at this many counted failures
\* and lets a call through again after this many minutes; time is counted in
\* minutes here.
breaker_failure_limit == 5

breaker_open_minutes == 5

\* Most failures counted, and the last minute of the clock.
MaxBreakerFailures == breaker_failure_limit + 2

CollectorMaxTime == breaker_open_minutes + 2

\* What requests.get and raise_for_status end in: a completed answer, a
\* timeout, an error status, or a connection that could not be made.
FetchAnswers ==
    {[kind |-> "ok", status |-> 200],
     [kind |-> "Timeout", status |-> 0],
     [kind |-> "ConnectionError", status |-> 0]}
    \cup {[kind |-> "HTTPError", status |-> c] : c \in {401, 403, 404, 500}}

\* get_github_workflow_runs, undecorated: the class of the exception it
\* raises, "" when it returns the answer.  Timeout and HTTPError are turned
\* into GitHubAPIError; any other RequestException leaves the function as it is.
get_github_workflow_runs(answer) ==
    IF answer.kind = "ok" THEN ""
    ELSE IF answer.kind \in {"Timeout", "HTTPError"} THEN "GitHubAPIError"
    ELSE "RequestException"

\* The wrapper of circuit_breaker around it, called at minute t in the breaker
\* state cbs: the state it leaves and what the caller gets.
circuit_breaker(cbs, t, answer) ==
    IF cbs.state = OPEN
        /\ ~(cbs.last_failure # None /\ t - cbs.last_failure[1] > breaker_open_minutes)
    THEN [state |-> cbs, called |-> FALSE, result |-> "None"]
    ELSE LET entered == IF cbs.state = OPEN
                        THEN [cbs EXCEPT !.state = HALF_OPEN] ELSE cbs
             raised == get_github_workflow_runs(answer)
         IN  IF raised = ""
             THEN [state |-> IF entered.state = HALF_OPEN
                             THEN [entered EXCEPT !.state = CLOSED, !.failures = 0]
                             ELSE entered,
                   called |-> TRUE, result |-> "json"]
             ELSE IF raised = "RequestException"
             THEN [state |-> [entered EXCEPT
                                !.failures = @ + 1,
                                !.last_failure = <<t>>,
                                !.state = IF entered.failures + 1 >= breaker_failure_limit
                                          THEN OPEN ELSE @],
                   called |-> TRUE, result |-> "GitHubAPIError"]
             ELSE [state |-> entered, called |-> TRUE, result |-> raised]

\* A call of the decorated get_github_workflow_runs.
CallFetch(answer) ==
    LET r == circuit_breaker(circuit_breaker_state, now, answer)
    IN  /\ r.state.failures <= MaxBreakerFailures
        \* a call that is skipped gets no answer
        /\ ~r.called => answer.kind = "ok"
        /\ circuit_breaker_state' = r.state
        /\ fetch' = [answer |-> IF r.called THEN answer.kind ELSE "skipped",
                     status |-> IF r.called THEN answer.status ELSE 0,
                     result |-> r.result,
                     before |-> circuit_breaker_state,
                     at |-> now]
        /\ UNCHANGED <<enabled, store, now, seqvars, procvars, race, failures,
                       analysis, run, retry, live>>

CollectorTick ==
    /\ now < CollectorMaxTime
    /\ now' = now + 1
    /\ UNCHANGED <<enabled, store, seqvars, procvars, xvars>>

CollectorNext ==
    \/ CollectorTick
    \/ \E answer \in FetchAnswers : CallFetch(answer)

CollectorSpec == Init /\ [][CollectorNext]_vars

\* The last call of the fetch was made and failed.
FetchFailed == fetch.answer \in {"Timeout", "HTTPError", "ConnectionError"}

\* The breaker stood HALF_OPEN when the last call reached the fetch.
ProbedHalfOpen ==
    \/ fetch.before.state = HALF_OPEN
    \/ fetch.before.state = OPEN /\ fetch.answer # "skipped"

\* C40: in the in-process breaker of the metrics collector every failed call
\* of the wrapped fetch (timeout, status 401, 403, 404 or another error
\* status, connection error) increments the failure counter and records
\* last_failure; the fifth counted failure sets the state to OPEN, and a call
\* that fails while HALF_OPEN puts the breaker back to OPEN.
C40_EveryFailureCounted ==
    FetchFailed =>
        /\ circuit_breaker_state.failures = fetch.before.failures + 1
        /\ circuit_breaker_state.last_failure = <<fetch.at>>
        /\ circuit_breaker_state.failures >= breaker_failure_limit
            => circuit_breaker_state.state = OPEN
        /\ ProbedHalfOpen => circuit_breaker_state.state = OPEN

\* What the code does: only a failure that leaves the fetch as a
\* RequestException is counted; after a timeout or an error status the counter
\* and last_failure are as before and a HALF_OPEN breaker stays HALF_OPEN.
FailuresCountedAsBuilt ==
    FetchFailed =>
        IF fetch.answer = "ConnectionError"
        THEN /\ circuit_breaker_state.failures = fetch.before.failures + 1
             /\ circuit_breaker_state.last_failure = <<fetch.at>>
             /\ circuit_breaker_state.state =
                    (IF circuit_breaker_state.failures >= breaker_failure_limit
                     THEN OPEN ELSE fetch.before.state)
             /\ ProbedHalfOpen => circuit_breaker_state.state = OPEN
        ELSE /\ circuit_breaker_state.failures = fetch.before.failures
             /\ circuit_breaker_state.last_failure = fetch.before.last_failure
             /\ circuit_breaker_state.state =
                    (IF ProbedHalfOpen THEN HALF_OPEN ELSE fetch.before.state)

====
